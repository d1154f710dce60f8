------------------------------- MODULE Containers -------------------------------
(***************************************************************************)
(* Derived images: container-build makes one from a manifest's packages    *)
(* and copied files, container-dispatch runs a manifest on it, and         *)
(* container-prune removes those no listed manifest names.  A tag is a     *)
(* digest of the inputs, so here it is the inputs.  The files copied can   *)
(* be edited at any time.                                                  *)
(***************************************************************************)
EXTENDS RunDirectory

VARIABLES
    host,     \* copied host path to its contents, 0 if absent
    images,   \* derived images of the runtime, tag to what is in it
    build,    \* manifest to its container-build
    launch,   \* the container-dispatch
    tidy,     \* the container-prune
    audit,    \* entries of container-dispatch.log
    skew      \* history: a file changed between its digest and its staging

boxVars == <<host, images, build, launch, tidy, audit, skew>>

Boxes == DOMAIN menu.boxes
Box(m) == menu.boxes[m]
Copies(m) == {Box(m).copy[i] : i \in 1..Len(Box(m).copy)}
NoImage == [base |-> "", apt |-> {}, files |-> {}]

InitContainers ==
    /\ host = menu.host
    /\ images = <<>>
    /\ build = [m \in Boxes |-> [at |-> "idle", tag |-> NoImage]]
    /\ launch = [at |-> "idle", tag |-> NoImage, derived |-> FALSE, args |-> NoImage, image |-> NoImage]
    /\ tidy = [at |-> "idle", live |-> {}, refs |-> {}]
    /\ audit = 0 /\ skew = FALSE

\* A tool that is asked for must be there; otherwise podman before docker.
detect_runtime(override, manifest, env, path) ==
    LET named == IF override # "" THEN override ELSE manifest
        wanted == IF named # "" THEN named ELSE env
    IN  CASE wanted \in {"auto", ""} /\ "podman" \in path -> "podman"
          [] wanted \in {"auto", ""} /\ "podman" \notin path /\ "docker" \in path -> "docker"
          [] wanted \in {"podman", "docker"} /\ wanted \in path -> wanted
          [] OTHER -> "none"
Runtime == detect_runtime(menu.runtime, "", "", menu.path)

\* Whether an image is here; only podman has the subcommand.
image_exists(tag) == Runtime = "podman" /\ tag \in DOMAIN images

\* The base image, the packages as a set, and each copied file with its
\* contents; none without packages and copies.
Derives(m) == Box(m).apt # {} \/ Copies(m) # {}
Hashable(m) == \A c \in Copies(m) : host[c.host] # 0
derived_image_tag(m) ==
    [base |-> Box(m).image, apt |-> Box(m).apt, files |-> {<<c.to, host[c.host]>> : c \in Copies(m)}]

\* Arguments that would undo the confinement, or what pitboss sets itself.
Forbidden == {"--privileged", "-v", "--volume", "--mount", "-u", "--user", "--entrypoint", "--pid=host",
              "--ipc=host", "--uts=host", "--userns=host", "--cgroupns=host", "--pid=container:",
              "--device=", "--device-cgroup-rule=", "--entrypoint=", "--volume=", "--user=",
              "--security-opt=seccomp=unconfined", "--security-opt=apparmor=unconfined",
              "--security-opt=label=disable", "--security-opt=label:disable"}
ForbiddenCaps == {"ALL", "SYS_ADMIN", "SYS_PTRACE", "SYS_MODULE"}
validate_extra_args(m) == Box(m).extra \cap Forbidden = {} /\ Box(m).caps \cap ForbiddenCaps = {}
is_valid_apt_pkg(p) == p \notin menu.badPkgs

ClaudeDir == "/home/pitboss/.claude"
RunsDir == "/home/pitboss/.local/share/pitboss/runs"
\* The user inside: kept by rootless podman, aligned by docker.
UserOf == CASE Runtime = "podman" /\ menu.rootless -> "keep-id"
            [] Runtime # "podman" /\ menu.uid # 1000 -> "host"
            [] OTHER -> "image"
\* The mounts, the user, the image and who runs first in it.
build_run_args(m, tag, derived) ==
    LET boot == Box(m).apt # {} /\ ~derived
        own == {Box(m).mounts[i] : i \in 1..Len(Box(m).mounts)}
    IN  [mounts |-> own \cup {ClaudeDir, RunsDir, "/run/pitboss.toml"},
         claude |-> CASE ClaudeDir \in own -> "own"
                      [] ClaudeDir \notin own /\ Box(m).claudeRw -> "rw"
                      [] OTHER -> "ro",
         workdir |-> CASE Box(m).workdir # "" -> Box(m).workdir
                       [] Box(m).workdir = "" /\ Box(m).mounts # <<>> -> Box(m).mounts[1]
                       [] OTHER -> "/home/pitboss",
         user |-> IF boot THEN "root" ELSE UserOf,
         boot |-> boot, image |-> IF derived THEN tag ELSE [NoImage EXCEPT !.base = Box(m).image]]
ArgsOk(m, derived) ==
    /\ validate_extra_args(m)
    /\ (Box(m).apt # {} /\ ~derived) => \A p \in Box(m).apt : is_valid_apt_pkg(p)
----------------------------------------------------------------------------
(* container-build. *)

buildRest == <<launch, tidy, audit, host>>
BuildAt(m, at) == build' = [build EXCEPT ![m].at = at]

HashInputs(m) ==
    /\ m \in menu.builds /\ build[m].at = "idle"
    /\ build' = [build EXCEPT ![m] =
            IF Derives(m) /\ Hashable(m) THEN [at |-> "exists", tag |-> derived_image_tag(m)]
            ELSE [at |-> "refused", tag |-> NoImage]]
    /\ UNCHANGED <<buildRest, images, skew>>
BuildLooks(m) ==
    /\ build[m].at = "exists"
    /\ BuildAt(m, CASE Runtime = "none" -> "refused"
                    [] Runtime # "none" /\ image_exists(build[m].tag) /\ ~menu.noCache -> "done"
                    [] OTHER -> "stage")
    /\ UNCHANGED <<buildRest, images, skew>>
\* The files are copied into the context, then built; the runtime may fail.
run_container_build(m) ==
    /\ build[m].at = "stage"
    /\ LET staged == derived_image_tag(m)
       IN  IF ~Hashable(m) THEN BuildAt(m, "refused") /\ UNCHANGED <<images, skew>>
           ELSE /\ skew' = (skew \/ staged # build[m].tag)
                /\ \E ok \in {TRUE, ~menu.buildFails} :
                    /\ images' = IF ok THEN [t \in DOMAIN images \cup {build[m].tag} |->
                                                IF t = build[m].tag THEN staged ELSE images[t]]
                                 ELSE images
                    /\ BuildAt(m, IF ok THEN "done" ELSE "refused")
    /\ UNCHANGED buildRest
----------------------------------------------------------------------------
(* container-dispatch. *)

launchRest == <<host, images, build, tidy, skew>>

\* Copied files need the image; packages can be installed when the container
\* starts.
TagAndLook ==
    /\ menu.launch # "" /\ launch.at = "idle"
    /\ LET m == menu.launch
           tag == derived_image_tag(m)
           derived == Derives(m) /\ Hashable(m) /\ image_exists(tag)
       IN  launch' = IF Runtime = "none" \/ (Derives(m) /\ ~Hashable(m)) \/ (Copies(m) # {} /\ ~derived)
                        \/ ~ArgsOk(m, derived)
                     THEN [launch EXCEPT !.at = "refused"]
                     ELSE [at |-> IF menu.dryRun THEN "printed" ELSE "audit", tag |-> tag, derived |-> derived,
                           args |-> build_run_args(m, tag, derived), image |-> NoImage]
    /\ UNCHANGED <<launchRest, audit, dir>>
\* The log and the copy of the manifest may fail: the run starts without them.
append_container_dispatch_audit ==
    /\ launch.at = "audit" /\ launch' = [launch EXCEPT !.at = "source"]
    /\ audit' \in {audit, audit + 1}
    /\ UNCHANGED <<launchRest, dir>>
write_source_manifest_artifact ==
    /\ launch.at = "source" /\ launch' = [launch EXCEPT !.at = "exec"]
    /\ \E ok \in BOOLEAN : dir' = IF ok THEN [dir EXCEPT !.exists = TRUE, !.source = TRUE] ELSE dir
    /\ UNCHANGED <<launchRest, audit>>
\* An image that is gone by now fails in the runtime.
ExecRuntime ==
    /\ launch.at = "exec"
    /\ LET img == launch.args.image
           here == launch.derived => img \in DOMAIN images
       IN  launch' = IF ~here THEN [launch EXCEPT !.at = "failed"]
                     ELSE [launch EXCEPT !.at = "running",
                                         !.image = IF launch.derived THEN images[img] ELSE img]
    /\ UNCHANGED <<launchRest, audit, dir>>
----------------------------------------------------------------------------
(* container-prune. *)

tidyRest == <<host, build, launch, audit, skew>>

list_derived_tags ==
    /\ menu.tidy # {} /\ tidy.at = "idle"
    /\ tidy' = [tidy EXCEPT !.at = IF Runtime = "none" THEN "failed" ELSE "refs", !.live = DOMAIN images]
    /\ UNCHANGED <<tidyRest, images>>
\* A manifest whose tag cannot be computed ends the command before it removes.
compute_reference_set ==
    /\ tidy.at = "refs"
    /\ IF \E m \in menu.tidy : ~Hashable(m) THEN tidy' = [tidy EXCEPT !.at = "failed"]
       ELSE tidy' = [tidy EXCEPT !.at = IF menu.apply THEN "remove" ELSE "done",
                                 !.refs = {derived_image_tag(m) : m \in {n \in menu.tidy : Derives(n)}}]
    /\ UNCHANGED <<tidyRest, images>>
classify_tags == tidy.live \ tidy.refs
remove_tag ==
    /\ tidy.at = "remove"
    /\ IF classify_tags = {} THEN tidy' = [tidy EXCEPT !.at = "done"] /\ UNCHANGED images
       ELSE \E t \in classify_tags :
            /\ tidy' = [tidy EXCEPT !.live = @ \ {t}]
            /\ images' = [u \in DOMAIN images \ {t} |-> images[u]]
    /\ UNCHANGED <<tidyRest>>

EditHost(f) ==
    /\ \E v \in menu.edits \ {host[f]} : host' = [host EXCEPT ![f] = v]
    /\ UNCHANGED <<images, build, launch, tidy, audit, skew>>

ContainerStep ==
    \/ \E m \in Boxes : (HashInputs(m) \/ BuildLooks(m) \/ run_container_build(m)) /\ UNCHANGED dir
    \/ TagAndLook \/ append_container_dispatch_audit \/ write_source_manifest_artifact \/ ExecRuntime
    \/ (list_derived_tags \/ compute_reference_set \/ remove_tag) /\ UNCHANGED dir
    \/ \E f \in DOMAIN host : EditHost(f) /\ UNCHANGED dir

\* A container that runs has the files and packages its manifest had when it
\* was started, or installs the packages as root first; nothing a manifest
\* refers to is removed.
ImagesServe ==
    launch.at = "running" =>
        LET m == menu.launch
        IN  /\ ~skew /\ launch.derived => launch.image = launch.tag
            /\ {c.to : c \in Copies(m)} \subseteq {f[1] : f \in launch.image.files}
            /\ Box(m).apt \subseteq launch.image.apt \/ (launch.args.boot /\ launch.args.user = "root")
            /\ launch.args.claude = "rw" => Box(m).claudeRw
            /\ m \in menu.tidy /\ menu.edits = {} /\ tidy.at \in {"remove", "done"} => launch.tag \notin classify_tags
================================================================================
