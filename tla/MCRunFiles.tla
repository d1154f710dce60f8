------------------------------- MODULE MCRunFiles -------------------------------
(***************************************************************************)
(* Scenarios of the files of a run for TLC.                                *)
(***************************************************************************)
EXTENDS RunFiles

A1 == Rec("a", 1, TRUE, "s1")
A2 == [Rec("a", 2, FALSE, "s2") EXCEPT !.why = "budget_breach"]
B1 == Rec("b", 1, FALSE, "s3")
C1 == Rec("c", 3, TRUE, "none")
Bad == Rec("b", 2, TRUE, "-x")

OldDb == [NoDb EXCEPT !.tables = TRUE, !.cols = {"shire_version", "task_id", "model"}, !.rows = <<Rec("z", 1, TRUE, "s9")>>]
HalfDb == [OldDb EXCEPT !.cols = {"pitboss_version", "task_id", "parent_task_id", "pause_count"}, !.versions = 1..3]

Plain == [image |-> "base", apt |-> {}, copy |-> <<>>, mounts |-> <<"/work">>, workdir |-> "", claudeRw |-> FALSE,
          extra |-> {"--cpus"}, caps |-> {}]
Tools == [Plain EXCEPT !.apt = {"jq"}, !.workdir = "/src"]
Files == [Plain EXCEPT !.copy = <<[host |-> "f", to |-> "/etc/f"]>>, !.claudeRw = TRUE, !.mounts = <<>>]
Both == [Tools EXCEPT !.copy = Files.copy, !.mounts = <<"/home/pitboss/.claude">>]

Base == [store |-> "json", recs |-> <<>>, rank |-> [t \in {"a", "b", "c"} |-> CASE t = "a" -> 1 [] t = "b" -> 2 [] OTHER -> 3],
         background |-> FALSE, resumed |-> FALSE, fault |-> "none", socket |-> TRUE, hours |-> FALSE,
         crash |-> FALSE, interrupted |-> FALSE, pruners |-> {}, aborted |-> FALSE, apply |-> TRUE,
         remove |-> FALSE, follow |-> FALSE, resume |-> "none", tasks |-> {"a", "b", "c"}, lead |-> "a",
         subs |-> {}, worktree |-> TRUE, version |-> 1, envSet |-> TRUE,
         db |-> NoDb, conns |-> {}, boxes |-> <<>>, host |-> [f \in {"f"} |-> 1], builds |-> {}, launch |-> "",
         tidy |-> {}, edits |-> {}, runtime |-> "", path |-> {"podman", "docker"}, rootless |-> TRUE, uid |-> 1000,
         badPkgs |-> {"-bad"}, noCache |-> FALSE, buildFails |-> FALSE, dryRun |-> FALSE]

\* Appends that overlap, followed to the end.
Followed == [Base EXCEPT !.recs = <<A1, B1, C1>>, !.follow = TRUE, !.background = TRUE]
FollowTwice == [Followed EXCEPT !.recs = <<A1, A2>>]
FollowFails == [Base EXCEPT !.recs = <<A1, B1>>, !.follow = TRUE, !.fault = "append", !.resume = "lead",
                            !.subs = {<<"s", "s7">>, <<"t", "a/b">>}]
NoManifest == [Base EXCEPT !.background = TRUE, !.fault = "manifest"]
NoChild == [NoManifest EXCEPT !.fault = "spawn"]
BadId == [NoManifest EXCEPT !.fault = "id"]

\* Two prunes on a run that lives on, dies, or has ended, with a reader.
PruneLive == [Base EXCEPT !.recs = <<A1, B1>>, !.pruners = {"p", "q"}, !.hours = TRUE]
PruneDead == [PruneLive EXCEPT !.crash = TRUE, !.follow = TRUE, !.recs = <<A1>>]
PruneRemoves == [PruneLive EXCEPT !.crash = TRUE, !.remove = TRUE, !.follow = TRUE, !.recs = <<A1>>, !.pruners = {"p"}]
PruneAborted == [PruneLive EXCEPT !.crash = TRUE, !.aborted = TRUE, !.recs = <<A1>>, !.resume = "lead"]
PruneFlat == [PruneLive EXCEPT !.socket = FALSE, !.crash = TRUE, !.recs = <<A1, B1>>, !.pruners = {"p"}, !.resume = "flat"]
PruneShows == [PruneFlat EXCEPT !.apply = FALSE, !.interrupted = TRUE]

\* Resumes.
ResumeFlat == [Base EXCEPT !.recs = <<A1, A2, C1>>, !.resume = "flat", !.socket = FALSE]
ResumeBad == [ResumeFlat EXCEPT !.recs = <<A1, Bad>>]
ResumeNone == [ResumeFlat EXCEPT !.recs = <<C1>>]
ResumeNewer == [ResumeFlat EXCEPT !.recs = <<>>, !.version = 2]
ResumeUnset == [Base EXCEPT !.resume = "lead", !.envSet = FALSE, !.resumed = TRUE]
ResumeCleaned == [Base EXCEPT !.recs = <<A1>>, !.resume = "lead", !.worktree = FALSE]

\* SQLite: a new, an old and a half-migrated database, opened by two.
Sqlite == [Base EXCEPT !.store = "sqlite", !.recs = <<A1, B1, A2>>, !.conns = {"c1", "c2"}]
SqliteOld == [Sqlite EXCEPT !.db = OldDb, !.recs = <<>>]
SqliteHalf == [Sqlite EXCEPT !.db = HalfDb, !.crash = TRUE, !.recs = <<>>]

\* Images.
Images == [Base EXCEPT !.boxes = [x |-> Files, y |-> Tools], !.builds = {"x", "y"}, !.launch = "x", !.tidy = {"x"},
                       !.edits = {0, 1, 2}, !.recs = <<A1>>]
Apt == [Images EXCEPT !.launch = "y", !.edits = {}, !.buildFails = TRUE, !.tidy = {"y"}, !.noCache = TRUE]
Docker == [Images EXCEPT !.boxes = [x |-> Both, y |-> Plain], !.edits = {}, !.runtime = "docker", !.uid = 501]
Rejected == [Images EXCEPT !.boxes = [x |-> [Tools EXCEPT !.apt = {"-bad"}], y |-> [Plain EXCEPT !.caps = {"ALL"}]],
                           !.builds = {}, !.edits = {}, !.dryRun = TRUE]
Caps == [Rejected EXCEPT !.launch = "y"]
NoTool == [Images EXCEPT !.path = {}, !.edits = {}, !.apply = FALSE]

MCMenus == {Followed, FollowTwice, FollowFails, NoManifest, NoChild, BadId, PruneLive, PruneDead, PruneRemoves, PruneAborted,
            PruneFlat, PruneShows, ResumeFlat, ResumeBad, ResumeNone, ResumeNewer, ResumeUnset, ResumeCleaned,
            Sqlite, SqliteOld, SqliteHalf, Images, Apt, Docker, Rejected, Caps, NoTool}
\* A run is found by its id or by a prefix only it has; the old directory of
\* runs serves while it is the only one.
ASSUME LET names == {<<1, 2, 3>>, <<1, 2>>, <<1, 3>>, <<2, 2>>}
       IN  /\ resolve_run_dir_by_prefix(names, <<1, 2>>) = <<1, 2>>
           /\ resolve_run_dir_by_prefix(names, <<1>>) = <<>>
           /\ resolve_run_dir_by_prefix(names, <<2>>) = <<2, 2>>
           /\ resolve_run_dir_by_prefix(names, <<3>>) = <<>>
           /\ runs_base_dir("c", "l", {"l"}) = "l" /\ runs_base_dir("c", "l", {"c", "l"}) = "c"
================================================================================
