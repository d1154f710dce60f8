------------------------------- MODULE Sessions -------------------------------
(***************************************************************************)
(* The session of one task: the child process it runs, the pipe its output *)
(* arrives by, the stream loop that parses and logs every line, the end of *)
(* the child by itself, by its timeout or by the run's cancel token, and   *)
(* what is concluded from all of it.                                       *)
(*                                                                         *)
(* A line of output is the JSON value it holds, reduced to the fields the  *)
(* code reads.  A script fixes what a child does when left alone: the      *)
(* lines it prints and those it writes to stderr, how it exits, how it     *)
(* takes a SIGTERM, and whether a process it started keeps its pipe open.  *)
(***************************************************************************)
EXTENDS Integers, Sequences, FiniteSets, FiniteSetsExt, SequencesExt

CONSTANT TailLines  \* lines of a log the failure detection looks back over
ASSUME TailAssumption == TailLines \in Nat

VARIABLES
    menu,       \* the scenario, chosen once
    cancel,     \* the run's token: "none", "drain" or "terminate"
    sess,       \* task to where run_to_completion is
    why,        \* task to its end reason
    child,      \* task to its child process
    pipe,       \* task to the lines written and not yet read
    accum,      \* task to what the stream loop gathered
    log,        \* task to the lines of its stdout.log
    cut,        \* tasks whose stream was not read to its end in time
    outcome     \* task to its SessionOutcome

sessionVars == <<sess, why, child, pipe, accum, log, cut, outcome>>

Tasks == DOMAIN menu.script
Script(t) == menu.script[t]
NoUsage == -1

\* What a session starts from.
StreamAccum == [usage |-> 0, session_id |-> "", last_text |-> 0, saw_result |-> FALSE,
                latest |-> NoUsage, published |-> ""]
Unborn == [st |-> "none", wrote |-> 0, code |-> "none", sig |-> "none", heir |-> FALSE]
NoOutcome == [final_state |-> "none", exit_code |-> "none", token_usage |-> 0, session_id |-> ""]

InitSessions ==
    /\ sess = [t \in DOMAIN menu.script |-> "none"] /\ why = [t \in DOMAIN menu.script |-> "none"]
    /\ child = [t \in DOMAIN menu.script |-> Unborn] /\ pipe = [t \in DOMAIN menu.script |-> <<>>]
    /\ accum = [t \in DOMAIN menu.script |-> StreamAccum]
    /\ log = [t \in DOMAIN menu.script |-> <<>>] /\ cut = {}
    /\ outcome = [t \in DOMAIN menu.script |-> NoOutcome]
----------------------------------------------------------------------------
(* The parser: one line to its events; a line it refuses gives none, for   *)
(* the stream loop skips it.                                               *)

BlockEvents(b) ==
    CASE b.type = "text" /\ b.len >= 0 -> <<[ev |-> "text", len |-> b.len]>>
      [] b.type = "tool_use" -> <<[ev |-> "tool_use"]>>
      [] b.type = "thinking" -> <<[ev |-> "thinking"]>>
      [] OTHER -> <<>>

\* The usage comes after the blocks; without message.content the whole line
\* is refused, its usage too.
parse_assistant(v) ==
    IF ~v.content THEN <<>>
    ELSE FlattenSeq([i \in 1..Len(v.blocks) |-> BlockEvents(v.blocks[i])])
         \o (IF v.usage # NoUsage THEN <<[ev |-> "usage", usage |-> v.usage]>> ELSE <<>>)

parse_user(v) ==
    IF v.content /\ \E i \in 1..Len(v.blocks) : v.blocks[i].type = "tool_result"
    THEN <<[ev |-> "tool_result"]>> ELSE <<>>

\* A result without a session id or without usage is refused.
parse_result(v) ==
    IF v.sid = "" \/ v.usage = NoUsage THEN <<>>
    ELSE <<[ev |-> "result", sid |-> v.sid, usage |-> v.usage]>>

parse_line_all(v) ==
    CASE v.type = "system" -> <<[ev |-> "system", init |-> v.init, sid |-> v.sid]>>
      [] v.type = "assistant" -> parse_assistant(v)
      [] v.type = "user" -> parse_user(v)
      [] v.type = "result" -> parse_result(v)
      [] v.type = "rate_limit_event" -> <<[ev |-> "rate_limit"]>>
      [] v.type = "malformed" -> <<>>
      [] OTHER -> <<[ev |-> "unknown"]>>
----------------------------------------------------------------------------
(* The stream loop. *)

\* The longest text is the session's message, not the last one.
TakeText(a, e) == IF e.len > a.last_text THEN [a EXCEPT !.last_text = e.len] ELSE a

\* The session id is published once, at the init event or at the result.
Publish(a, sid) == IF a.published = "" THEN [a EXCEPT !.published = sid] ELSE a
TakeSystem(a, e) == IF e.init /\ e.sid # "" THEN Publish(a, e.sid) ELSE a
TakeUsage(a, e) == [a EXCEPT !.latest = e.usage]

TakeResult(a, e) ==
    [Publish(a, e.sid) EXCEPT !.session_id = e.sid, !.usage = @ + e.usage, !.saw_result = TRUE]

TakeEvent(a, e) ==
    CASE e.ev = "text" -> TakeText(a, e)
      [] e.ev = "system" -> TakeSystem(a, e)
      [] e.ev = "usage" -> TakeUsage(a, e)
      [] e.ev = "result" -> TakeResult(a, e)
      [] OTHER -> a

TakeLine(a, v) == FoldLeft(TakeEvent, a, parse_line_all(v))

\* One line: to the log first, then its events one by one.
stream_loop(t) ==
    /\ pipe[t] # <<>>
    /\ log' = [log EXCEPT ![t] = Append(@, Head(pipe[t]))]
    /\ accum' = [accum EXCEPT ![t] = TakeLine(@, Head(pipe[t]))]
    /\ pipe' = [pipe EXCEPT ![t] = Tail(@)]
    /\ UNCHANGED <<sess, why, child, cut, outcome>>

\* The stream ends when nobody holds the pipe's other end and it is empty.
StreamDone(t) == pipe[t] = <<>> /\ child[t].st # "alive" /\ ~child[t].heir
----------------------------------------------------------------------------
(* The child, left alone. *)

ChildWrites(t) ==
    /\ child[t].st = "alive" /\ child[t].wrote < Len(Script(t).lines)
    /\ pipe' = [pipe EXCEPT ![t] = Append(@, Script(t).lines[child[t].wrote + 1])]
    /\ child' = [child EXCEPT ![t] = [@ EXCEPT !.wrote = child[t].wrote + 1]]
    /\ UNCHANGED <<sess, why, accum, log, cut, outcome>>

Gone(t, code) == [child[t] EXCEPT !.st = "gone", !.code = code]

ChildExits(t) ==
    /\ child[t].st = "alive" /\ child[t].wrote = Len(Script(t).lines) /\ ~Script(t).hangs
    /\ child' = [child EXCEPT ![t] = Gone(t, Script(t).code)]
    /\ UNCHANGED <<sess, why, pipe, accum, log, cut, outcome>>

\* A SIGTERM ends a child that does not ignore it; it leaves no exit code.
ChildTakesTerm(t) ==
    /\ child[t].st = "alive" /\ child[t].sig = "term" /\ ~Script(t).ignores
    /\ child' = [child EXCEPT ![t] = Gone(t, "signal")]
    /\ UNCHANGED <<sess, why, pipe, accum, log, cut, outcome>>

HeirLeaves(t) ==
    /\ child[t].heir /\ child[t].st # "alive"
    /\ child' = [child EXCEPT ![t] = [@ EXCEPT !.heir = FALSE]]
    /\ UNCHANGED <<sess, why, pipe, accum, log, cut, outcome>>
----------------------------------------------------------------------------
(* run_to_completion. *)

Spawn(t) ==
    /\ sess[t] = "starting"
    /\ IF Script(t).spawns
       THEN /\ child' = [child EXCEPT ![t] = [Unborn EXCEPT !.st = "alive", !.heir = Script(t).heir]]
            /\ sess' = [sess EXCEPT ![t] = "try_wait"] /\ UNCHANGED outcome
       ELSE /\ outcome' = [outcome EXCEPT ![t] = [NoOutcome EXCEPT !.final_state = "SpawnFailed"]]
            /\ sess' = [sess EXCEPT ![t] = "ended"] /\ UNCHANGED child
    /\ UNCHANGED <<why, pipe, accum, log, cut>>

\* A child that is already gone is taken as exited whatever the token says.
try_wait(t) ==
    /\ sess[t] = "try_wait"
    /\ IF child[t].st = "gone"
       THEN why' = [why EXCEPT ![t] = "exited"] /\ sess' = [sess EXCEPT ![t] = "draining"]
       ELSE sess' = [sess EXCEPT ![t] = "select"] /\ UNCHANGED why
    /\ UNCHANGED <<child, pipe, accum, log, cut, outcome>>

EndExited(t) ==
    /\ sess[t] = "select" /\ child[t].st = "gone"
    /\ why' = [why EXCEPT ![t] = "exited"] /\ sess' = [sess EXCEPT ![t] = "draining"]
    /\ UNCHANGED <<child, pipe, accum, log, cut, outcome>>

\* The token or the timer: a SIGTERM to the child's group, and a grace.
terminate(t, reason) ==
    /\ sess[t] = "select"
    /\ why' = [why EXCEPT ![t] = reason] /\ sess' = [sess EXCEPT ![t] = "grace"]
    /\ child' = [child EXCEPT ![t] = [@ EXCEPT !.sig = "term"]]
    /\ UNCHANGED <<pipe, accum, log, cut, outcome>>

EndTerminated(t) == cancel = "terminate" /\ terminate(t, "terminated")
EndTimedOut(t) == Script(t).slow /\ terminate(t, "timed_out")

GraceEnds(t) ==
    /\ sess[t] = "grace" /\ child[t].st = "gone"
    /\ sess' = [sess EXCEPT ![t] = "draining"]
    /\ UNCHANGED <<why, child, pipe, accum, log, cut, outcome>>

\* Mutant: the end of the grace sends SIGTERM again.
X_GraceExpires(t) ==
    /\ sess[t] = "grace" /\ child[t].st = "alive"
    /\ child' = [child EXCEPT ![t] = [@ EXCEPT !.sig = "term"]]
    /\ UNCHANGED <<sess, why, pipe, accum, log, cut, outcome>>
\* SIGKILL takes the group with it, so nobody is left to hold the pipe.
GraceExpires(t) ==
    /\ sess[t] = "grace" /\ child[t].st = "alive"
    /\ child' = [child EXCEPT ![t] = [Gone(t, "signal") EXCEPT !.sig = "kill", !.heir = FALSE]]
    /\ sess' = [sess EXCEPT ![t] = "draining"]
    /\ UNCHANGED <<why, pipe, accum, log, cut, outcome>>

exit_code(t) == IF child[t].st = "gone" THEN child[t].code ELSE "none"

final_state(t) ==
    CASE why[t] = "timed_out" -> "TimedOut"
      [] why[t] = "terminated" -> "Cancelled"
      [] why[t] = "exited" /\ exit_code(t) = "0" /\ accum[t].saw_result -> "Completed"
      [] OTHER -> "Failed"

\* Usage of a session cut short is that of its latest assistant message.
token_usage(t) ==
    IF accum[t].saw_result THEN accum[t].usage
    ELSE IF accum[t].latest = NoUsage THEN 0 ELSE accum[t].latest

\* What run_to_completion returns, read once: a stream loop that was left
\* behind may still add to what it gathered, and nobody looks again.
SessionOutcome(t) == [final_state |-> final_state(t), exit_code |-> exit_code(t),
                      token_usage |-> token_usage(t), session_id |-> accum[t].session_id]
EndsWith(t) == sess' = [sess EXCEPT ![t] = "ended"] /\ outcome' = [outcome EXCEPT ![t] = SessionOutcome(t)]

\* Mutant: the outcome is read without waiting for the stream loop.
X_DrainEnds(t) ==
    /\ sess[t] = "draining" /\ EndsWith(t)
    /\ UNCHANGED <<why, child, pipe, accum, log, cut>>
DrainEnds(t) ==
    /\ sess[t] = "draining" /\ StreamDone(t) /\ EndsWith(t)
    /\ UNCHANGED <<why, child, pipe, accum, log, cut>>

\* The drain has its own timeout: a stream somebody keeps open, or that is
\* read too slowly, is left.
DrainExpires(t) ==
    /\ sess[t] = "draining" /\ ~StreamDone(t)
    /\ cut' = cut \cup {t} /\ EndsWith(t)
    /\ UNCHANGED <<why, child, pipe, accum, log>>

SessionStep(t) ==
    \/ stream_loop(t) \/ ChildWrites(t) \/ ChildExits(t) \/ ChildTakesTerm(t) \/ HeirLeaves(t)
    \/ Spawn(t) \/ try_wait(t) \/ EndExited(t) \/ EndTerminated(t) \/ EndTimedOut(t)
    \/ GraceEnds(t) \/ GraceExpires(t) \/ DrainEnds(t) \/ DrainExpires(t)

----------------------------------------------------------------------------
(* Why a session failed, from the end of its log. *)

read_tail(s) == SubSeq(s, Max({1, Len(s) - TailLines + 1}), Len(s))

\* An error object in a line, by its type.
classify_event_line(v) ==
    CASE v.err \in {"rate_limit_exceeded", "overloaded_error"} -> "RateLimit"
      [] v.err = "authentication_error" -> "AuthFailure"
      [] v.err = "invalid_request_error" ->
           IF "context" \in v.marks THEN "ContextExceeded" ELSE "InvalidArgument"
      [] OTHER -> "none"

Marked(blob, m) == \E i \in 1..Len(blob) : m \in blob[i].marks

\* Error objects before words; among the objects authentication first, then
\* an overlong context, then a rate limit; words of a failed authentication
\* outrank every object but those two.
classify(blob) ==
    LET found == {classify_event_line(blob[i]) : i \in 1..Len(blob)} \ {"none"}
        first == SelectInSeq(blob, LAMBDA v : classify_event_line(v) # "none")
    IN CASE "AuthFailure" \in found -> "AuthFailure"
         [] "AuthFailure" \notin found /\ "ContextExceeded" \in found -> "ContextExceeded"
         [] found # {} /\ found \cap {"AuthFailure", "ContextExceeded"} = {} ->
              IF Marked(blob, "auth") THEN "AuthFailure"
              ELSE IF "RateLimit" \in found THEN "RateLimit"
              ELSE classify_event_line(blob[first])
         [] found = {} /\ Marked(blob, "auth") -> "AuthFailure"
         [] found = {} /\ ~Marked(blob, "auth") /\ Marked(blob, "rate") -> "RateLimit"
         [] OTHER ->
              IF Marked(blob, "context") THEN "ContextExceeded"
              ELSE IF Marked(blob, "argument") THEN "InvalidArgument"
              ELSE IF Marked(blob, "network") THEN "NetworkError" ELSE "Unknown"

\* What stderr.log may hold: the drain of stderr has a timeout as well.
stderr_log(t) == IF child[t].st = "none" THEN {<<>>}
                 ELSE {SubSeq(Script(t).errs, 1, n) : n \in 0..Len(Script(t).errs)}

\* A child that exited with 0 has no failure reason, whatever it printed.
detect_failure_reason(t, err) ==
    IF outcome[t].exit_code = "0" THEN "none" ELSE classify(read_tail(log[t]) \o read_tail(err))
----------------------------------------------------------------------------
\* What a session is said to have come to is what its child did.  Of a child
\* that left by itself, with its output read to the end, nothing printed is
\* missed: it succeeded exactly when it exited with 0 and printed a result
\* the parser takes, and its tokens are those of its results, or of its last
\* message without one.  A session that was cut off never counts as success.
Printed(t) == FlattenSeq([i \in 1..child[t].wrote |-> parse_line_all(Script(t).lines[i])])
OutcomeIsTrue ==
    \A t \in Tasks : sess[t] = "ended" =>
        LET results == SelectSeq(Printed(t), LAMBDA e : e.ev = "result")
            usages == SelectSeq(Printed(t), LAMBDA e : e.ev = "usage")
        IN  /\ outcome[t].final_state = "Completed" =>
                 why[t] = "exited" /\ child[t].code = "0" /\ results # <<>>
            /\ why[t] = "exited" /\ child[t].code = "0" /\ results # <<>> /\ t \notin cut
                 => outcome[t].final_state = "Completed"
            /\ t \notin cut => outcome[t].token_usage =
                 IF results # <<>> THEN FoldLeft(LAMBDA n, e : n + e.usage, 0, results)
                 ELSE IF usages # <<>> THEN Last(usages).usage ELSE 0
=============================================================================
