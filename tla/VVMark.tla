-------------------------------- MODULE VVMark --------------------------------
(***************************************************************************)
(* The refresh mark: how refresh_index_core keeps two refreshes of one     *)
(* index apart with two columns of the manifest row, refresh_started_at    *)
(* and refresh_started_by, and gets rid of a mark nobody removed.          *)
(*                                                                         *)
(* Only differences of times matter, so a time is kept as its age.  Two    *)
(* calls never start in the same microsecond: a start time names its call. *)
(***************************************************************************)
EXTENDS Naturals

CONSTANTS
    Sessions,       \* sessions that call refresh_index, one call at a time each
    Sees,           \* <<s, t>>: s can tell from v_monitor.sessions whether t is still there
    MinKeep,        \* 21600 seconds
    MaxBuild,       \* bound: build_seconds
    Patience        \* bound: how long a call takes before it runs

ASSUME MarkConstants ==
    /\ "none" \notin Sessions /\ Sees \subseteq Sessions \X Sessions
    /\ MinKeep \in Nat /\ MaxBuild \in Nat /\ Patience \in Nat

VARIABLES
    mark,           \* refresh_started_by (or "none") and the age of refresh_started_at
    built,          \* manifest.build_seconds
    alive,          \* the sessions that are connected
    call            \* call[s]: the call of refresh_index_core session s is in

vars == <<mark, built, alive, call>>

Larger(a, b) == IF a > b THEN a ELSE b

\* GREATEST(21600, 4 * build_seconds)
Keep(b) == Larger(MinKeep, 4 * b)

\* Beyond this an age makes no difference any more.
OldAge == Keep(MaxBuild) + Patience + 1

NoMark == [by |-> "none", age |-> 0]
NoCall == [pc |-> "idle", age |-> 0, holder |-> "none", gone |-> FALSE, keep |-> 0]
Marking == {"started", "read", "judged", "tried"}

Init ==
    /\ mark = NoMark
    /\ built = 0
    /\ alive = Sessions
    /\ call = [s \in Sessions |-> NoCall]

\* Time passes.
Older(a) == IF a < OldAge THEN a + 1 ELSE a
Tick ==
    /\ \A s \in Sessions : call[s].pc \in Marking => call[s].age < Patience
    /\ mark' = IF mark.by = "none" THEN mark ELSE [mark EXCEPT !.age = Older(@)]
    /\ call' = [s \in Sessions |-> IF call[s].pc = "idle" THEN call[s] ELSE [call[s] EXCEPT !.age = Older(@)]]
    /\ UNCHANGED <<built, alive>>

------------------------------------------------------------------------------
\* t_start is taken.
Start(s) ==
    /\ s \in alive /\ call[s].pc = "idle"
    /\ call' = [call EXCEPT ![s] = [NoCall EXCEPT !.pc = "started"]]
    /\ UNCHANGED <<mark, built, alive>>

\* The holder of the mark is read.
ReadHolder(s) ==
    /\ s \in alive /\ call[s].pc = "started"
    /\ call' = [call EXCEPT ![s].pc = "read", ![s].holder = mark.by]
    /\ UNCHANGED <<mark, built, alive>>

\* A mark of the session's own is left from an earlier call of it; another's is left behind when its
\* session is gone, as far as this session can see that.
GoneNow(s) == LET h == call[s].holder IN
    h # "none" /\ (h = s \/ (<<s, h>> \in Sees /\ h \notin alive))
GoneUnseen(s) == LET h == call[s].holder IN            \* mutant: a session it cannot see is taken for gone
    h # "none" /\ (h = s \/ <<s, h>> \notin Sees \/ h \notin alive)
Gone(s) == GoneNow(s)

Judge(s) ==
    /\ s \in alive /\ call[s].pc = "read"
    /\ call' = [call EXCEPT ![s].pc = "judged", ![s].gone = Gone(s), ![s].keep = Keep(built)]
    /\ UNCHANGED <<mark, built, alive>>

\* The condition of the UPDATE, on the row as it is by then.
FreeNoExpiry(s) ==                                      \* mutant: a mark never expires
    mark.by = "none" \/ (call[s].gone /\ mark.by = call[s].holder)
Free(s) ==
    \/ mark.by = "none"
    \/ mark.age > call[s].age + call[s].keep
    \/ call[s].gone /\ mark.by = call[s].holder

TryMark(s) ==
    /\ s \in alive /\ call[s].pc = "judged"
    /\ mark' = IF Free(s) THEN [by |-> s, age |-> call[s].age] ELSE mark
    /\ call' = [call EXCEPT ![s].pc = "tried"]
    /\ UNCHANGED <<built, alive>>

\* The row says whether it is this call's mark: the refresh runs, or the call ends with an error.
Marked(s) == mark.by = s /\ mark.age = call[s].age

CheckMark(s) ==
    /\ s \in alive /\ call[s].pc = "tried"
    /\ call' = [call EXCEPT ![s] = IF Marked(s) THEN [NoCall EXCEPT !.pc = "running", !.age = call[s].age]
                                      ELSE NoCall]
    /\ UNCHANGED <<mark, built, alive>>

\* refresh_index_run writes the manifest row, its own duration included.
Record(s) ==
    /\ s \in alive /\ call[s].pc = "running"
    /\ built' = IF call[s].age < MaxBuild THEN call[s].age ELSE MaxBuild
    /\ UNCHANGED <<mark, alive, call>>

\* It ends, well or with an error the handler sees: its own mark is removed.
ClearAnyMark(s) == NoMark                               \* mutant: whatever mark is there is removed
ClearKeepsTime(s) ==                                    \* mutant: one of the two columns is forgotten
    IF Marked(s) THEN [mark EXCEPT !.by = "none"] ELSE mark
Cleared(s) == IF Marked(s) THEN NoMark ELSE mark

End(s) ==
    /\ s \in alive /\ call[s].pc = "running"
    /\ mark' = Cleared(s)
    /\ call' = [call EXCEPT ![s] = NoCall]
    /\ UNCHANGED <<built, alive>>

\* A failing UDx query on several nodes ends the call without running the handler.
EndUnhandled(s) ==
    /\ s \in alive /\ call[s].pc = "running"
    /\ call' = [call EXCEPT ![s] = NoCall]
    /\ UNCHANGED <<mark, built, alive>>

\* The session is killed or its node goes down.
Die(s) ==
    /\ s \in alive
    /\ alive' = alive \ {s}
    /\ call' = [call EXCEPT ![s] = NoCall]
    /\ UNCHANGED <<mark, built>>

------------------------------------------------------------------------------
Attempt(s) == Start(s) \/ ReadHolder(s) \/ Judge(s) \/ TryMark(s) \/ CheckMark(s)

Next ==
    \/ Tick
    \/ \E s \in Sessions : Attempt(s) \/ Record(s) \/ End(s) \/ EndUnhandled(s) \/ Die(s)

\* Time passes, and whoever is connected keeps calling (a schedule does) and gets its statements done.
\* Nothing is assumed about a refresh that runs.
Fairness == WF_vars(Tick) /\ \A s \in Sessions : WF_vars(Attempt(s))

Spec == Init /\ [][Next]_vars /\ Fairness

------------------------------------------------------------------------------
Running == {s \in Sessions : call[s].pc = "running"}

\* Every variable stays in its type, the two columns of the mark are set and cleared together, and a
\* session that is gone is in no call.
TypeOK ==
    /\ mark \in [by : Sessions \cup {"none"}, age : 0..OldAge] /\ (mark.by = "none" => mark.age = 0)
    /\ built \in 0..MaxBuild
    /\ alive \subseteq Sessions
    /\ call \in [Sessions -> [pc : {"idle", "running"} \cup Marking, age : 0..OldAge,
                              holder : Sessions \cup {"none"}, gone : BOOLEAN, keep : 0..Keep(MaxBuild)]]
    /\ \A s \in Sessions : call[s].pc \in Marking => call[s].age <= Patience
    /\ \A s \in Sessions \ alive : call[s] = NoCall

\* Two refreshes of one index run at the same time only when one of them has run longer than a mark is kept.
SingleRefresh ==
    \A r, s \in Running : r # s => call[r].age > MinKeep \/ call[s].age > MinKeep

\* A refresh that has not run that long has its mark on the row: no other call, no late end of a refresh
\* that lost its mark and no stale judgement about a session takes it away.
RunningIsMarked == \A s \in Running : call[s].age <= MinKeep => Marked(s)

\* A mark nobody removes (a killed session, a call that ended without its handler) does not stop refreshes
\* for ever: as long as some session keeps trying, a refresh runs again and again.
NeverStuck == \A s \in Sessions : <>[](s \in alive) => []<>(Running # {})
==============================================================================
