----------------------------- MODULE VVMarkProofs -----------------------------
(***************************************************************************)
(* Theorems about VVMark, for every set of sessions, whatever they see of  *)
(* each other, and every value of the bounds.                              *)
(*                                                                         *)
(* Outline.  A young refresh has its mark on the row (RunningIsMarked),    *)
(* and the row has room for one mark, so two refreshes are never both      *)
(* young (SingleRefresh).  The mark of a young refresh is safe from the    *)
(* UPDATE of another call because what that call judged is still true      *)
(* then (Judged): the time a mark is kept is at least MinKeep, and a       *)
(* session that was gone is still gone.                                    *)
(***************************************************************************)
EXTENDS VVMark, TLAPS

\* What a call has judged holds until its UPDATE.
Judged ==
    \A s \in Sessions : call[s].pc = "judged" =>
        /\ call[s].keep >= MinKeep
        /\ call[s].gone => call[s].holder = s \/ call[s].holder \notin alive

IInv == TypeOK /\ Judged /\ RunningIsMarked

\* A mark is kept for MinKeep or longer, and never longer than after the longest build.
LEMMA KeepBounds ==
    /\ OldAge \in Nat /\ OldAge > Patience /\ Keep(MaxBuild) < OldAge
    /\ \A b \in 0..MaxBuild : Keep(b) \in 0..Keep(MaxBuild) /\ Keep(b) >= MinKeep
BY MarkConstants DEF Keep, Larger, OldAge

\* Ages grow, up to OldAge.
LEMMA OlderAges == \A a \in 0..OldAge : Older(a) \in 0..OldAge /\ Older(a) >= a /\ Older(a) <= a + 1
BY KeepBounds DEF Older

LEMMA InitInv == Init => IInv
BY MarkConstants, KeepBounds DEF Init, IInv, TypeOK, Judged, RunningIsMarked, Running, NoMark, NoCall, Marking

\* The types of a call and of all calls.
Calls ==
    [pc : {"idle", "running"} \cup Marking, age : 0..OldAge, holder : Sessions \cup {"none"}, gone : BOOLEAN,
     keep : 0..Keep(MaxBuild)]
InTime(c) == c.pc \in Marking => c.age <= Patience
CallsOK ==
    /\ call \in [Sessions -> Calls]
    /\ \A s \in Sessions : InTime(call[s])
    /\ \A s \in Sessions \ alive : call[s] = NoCall

OthersOK ==
    /\ mark \in [by : Sessions \cup {"none"}, age : 0..OldAge] /\ (mark.by = "none" => mark.age = 0)
    /\ built \in 0..MaxBuild
    /\ alive \subseteq Sessions

LEMMA Types == (TypeOK <=> OthersOK /\ CallsOK) /\ (TypeOK' <=> OthersOK' /\ CallsOK')
BY DEF TypeOK, OthersOK, CallsOK, Calls, InTime

LEMMA NoCallType == NoCall \in Calls /\ InTime(NoCall)
BY MarkConstants, KeepBounds DEF NoCall, Calls, InTime, Marking

LEMMA StartedType == [NoCall EXCEPT !.pc = "started"] \in Calls /\ InTime([NoCall EXCEPT !.pc = "started"])
<1>1. [NoCall EXCEPT !.pc = "started"] \in [pc : Marking, age : {0}, holder : {"none"}, gone : BOOLEAN, keep : {0}]
  BY DEF NoCall, Marking
<1>2. 0 \in 0..OldAge /\ 0 \in 0..Keep(MaxBuild) /\ 0 <= Patience
  BY MarkConstants, KeepBounds
<1> QED
  BY <1>1, <1>2 DEF Calls, InTime

\* A step of one connected session changes its own call only.
LEMMA OneCall ==
    ASSUME CallsOK, NEW s \in alive, alive \subseteq Sessions, alive' = alive,
           NEW c \in Calls, InTime(c), call' = [call EXCEPT ![s] = c]
    PROVE  CallsOK'
<1>1. call' \in [Sessions -> Calls]
  BY DEF CallsOK
<1>2. \A t \in Sessions : call'[t] = IF t = s THEN c ELSE call[t]
  BY DEF CallsOK
<1> QED
  BY <1>1, <1>2 DEF CallsOK

\* Every step keeps the types.
LEMMA TypeStep == TypeOK /\ [Next]_vars => TypeOK'
<1> SUFFICES ASSUME TypeOK, [Next]_vars PROVE TypeOK'
  OBVIOUS
<1> USE Types DEF OthersOK
<1>a. \A s \in Sessions : call[s] \in Calls /\ InTime(call[s])
  BY DEF CallsOK
<1>1. CASE Tick
  <2>1. mark' \in [by : Sessions \cup {"none"}, age : 0..OldAge] /\ (mark'.by = "none" => mark'.age = 0)
    BY <1>1, OlderAges DEF Tick
  <2>2. ASSUME NEW s \in Sessions
        PROVE  /\ call'[s] \in Calls /\ InTime(call'[s])
               /\ call[s] = NoCall => call'[s] = NoCall
    <3>1. CASE call[s].pc = "idle"
      BY <1>1, <1>a, <3>1 DEF Tick
    <3>2. CASE call[s].pc # "idle"
      <4>1. call'[s] = [call[s] EXCEPT !.age = Older(call[s].age)]
        BY <1>1, <3>2 DEF Tick
      <4>2. call[s].age \in 0..OldAge /\ Older(call[s].age) \in 0..OldAge
        BY <1>a, OlderAges DEF Calls
      <4>3. call'[s] \in Calls /\ call'[s].pc = call[s].pc /\ call'[s].age = Older(call[s].age)
        BY <1>a, <4>1, <4>2 DEF Calls
      <4>4. call[s].pc \in Marking => call[s].age < Patience
        BY <1>1 DEF Tick
      <4> QED
        BY <3>2, <4>2, <4>3, <4>4, OlderAges, MarkConstants DEF InTime, NoCall
    <3> QED
      BY <3>1, <3>2
  <2>3. CallsOK'
    BY <1>1, <2>2 DEF CallsOK, Tick
  <2> QED
    BY <1>1, <2>1, <2>3 DEF Tick
<1>2. ASSUME NEW s \in Sessions, Start(s) PROVE TypeOK'
  <2>1. [NoCall EXCEPT !.pc = "started"] \in Calls /\ InTime([NoCall EXCEPT !.pc = "started"])
    BY StartedType
  <2> QED
    BY <1>2, <2>1, OneCall DEF Start
<1>3. ASSUME NEW s \in Sessions, ReadHolder(s) PROVE TypeOK'
  <2> DEFINE c == [call[s] EXCEPT !.pc = "read", !.holder = mark.by]
  <2>1. c \in Calls /\ InTime(c)
    BY <1>a, <1>3 DEF ReadHolder, Calls, InTime, Marking
  <2>2. call' = [call EXCEPT ![s] = c]
    BY <1>3 DEF ReadHolder, CallsOK
  <2> QED
    BY <1>3, <2>1, <2>2, OneCall DEF ReadHolder
<1>4. ASSUME NEW s \in Sessions, Judge(s) PROVE TypeOK'
  <2> DEFINE c == [call[s] EXCEPT !.pc = "judged", !.gone = Gone(s), !.keep = Keep(built)]
  <2>1. Gone(s) \in BOOLEAN /\ Keep(built) \in 0..Keep(MaxBuild)
    BY KeepBounds DEF Gone, GoneNow
  <2>2. c \in Calls /\ InTime(c)
    BY <1>a, <1>4, <2>1 DEF Judge, Calls, InTime, Marking
  <2>3. call' = [call EXCEPT ![s] = c]
    BY <1>4 DEF Judge, CallsOK
  <2> QED
    BY <1>4, <2>2, <2>3, OneCall DEF Judge
<1>5. ASSUME NEW s \in Sessions, TryMark(s) PROVE TypeOK'
  <2> DEFINE c == [call[s] EXCEPT !.pc = "tried"]
  <2>1. c \in Calls /\ InTime(c)
    BY <1>a, <1>5 DEF TryMark, Calls, InTime, Marking
  <2>2. call' = [call EXCEPT ![s] = c]
    BY <1>5 DEF TryMark, CallsOK
  <2>3. CallsOK'
    BY <1>5, <2>1, <2>2, OneCall DEF TryMark
  <2>4. mark' \in [by : Sessions \cup {"none"}, age : 0..OldAge] /\ (mark'.by = "none" => mark'.age = 0)
    BY <1>5, <1>a, MarkConstants DEF TryMark, Calls
  <2> QED
    BY <1>5, <2>3, <2>4 DEF TryMark
<1>6. ASSUME NEW s \in Sessions, CheckMark(s) PROVE TypeOK'
  <2> DEFINE c == [NoCall EXCEPT !.pc = "running", !.age = call[s].age]
  <2>1. c \in Calls /\ InTime(c)
    BY <1>a, NoCallType DEF Calls, InTime, Marking, NoCall
  <2> QED
    BY <1>6, <2>1, NoCallType, OneCall DEF CheckMark
<1>7. ASSUME NEW s \in Sessions, Record(s) PROVE TypeOK'
  BY <1>7, <1>a, MarkConstants DEF Record, CallsOK, Calls
<1>8. ASSUME NEW s \in Sessions, End(s) PROVE TypeOK'
  <2>1. mark' \in [by : Sessions \cup {"none"}, age : 0..OldAge] /\ (mark'.by = "none" => mark'.age = 0)
    BY <1>8, KeepBounds DEF End, Cleared, NoMark
  <2>2. CallsOK'
    BY <1>8, NoCallType, OneCall DEF End
  <2> QED
    BY <1>8, <2>1, <2>2 DEF End
<1>9. ASSUME NEW s \in Sessions, EndUnhandled(s) PROVE TypeOK'
  BY <1>9, NoCallType, OneCall DEF EndUnhandled
<1>10. ASSUME NEW s \in Sessions, Die(s) PROVE TypeOK'
  <2>1. call' \in [Sessions -> Calls] /\ \A t \in Sessions : call'[t] = IF t = s THEN NoCall ELSE call[t]
    BY <1>10, NoCallType DEF Die, CallsOK
  <2>2. CallsOK'
    BY <1>10, <2>1, NoCallType DEF Die, CallsOK
  <2> QED
    BY <1>10, <2>2 DEF Die
<1>11. CASE UNCHANGED vars
  BY <1>11 DEF vars, CallsOK
<1> QED
  BY <1>1, <1>2, <1>3, <1>4, <1>5, <1>6, <1>7, <1>8, <1>9, <1>10, <1>11 DEF Next, Attempt

\* A judgement stays true: sessions do not come back, and the time to keep a mark is the call's own.
LEMMA JudgedStep == TypeOK /\ Judged /\ [Next]_vars => Judged'
<1> SUFFICES ASSUME TypeOK, Judged, [Next]_vars, NEW t \in Sessions, call'[t].pc = "judged"
             PROVE  /\ call'[t].keep >= MinKeep
                    /\ call'[t].gone => call'[t].holder = t \/ call'[t].holder \notin alive'
  BY DEF Judged
<1>1. ASSUME call[t].pc = "judged", alive' \subseteq alive,
             call'[t].keep = call[t].keep, call'[t].gone = call[t].gone, call'[t].holder = call[t].holder
      PROVE  /\ call'[t].keep >= MinKeep
             /\ call'[t].gone => call'[t].holder = t \/ call'[t].holder \notin alive'
  BY <1>1 DEF Judged
<1>2. CASE Tick
  BY <1>1, <1>2 DEF Tick, TypeOK
<1>3. ASSUME NEW s \in Sessions, Judge(s)
      PROVE  /\ call'[t].keep >= MinKeep
             /\ call'[t].gone => call'[t].holder = t \/ call'[t].holder \notin alive'
  <2>1. CASE t = s
    <3>1. call'[t].keep = Keep(built) /\ call'[t].holder = call[t].holder /\ alive' = alive
      BY <1>3, <2>1 DEF Judge, TypeOK
    <3>2. call'[t].gone = Gone(t)
      <4>1. call' = [call EXCEPT ![t] = [call[t] EXCEPT !.pc = "judged", !.gone = Gone(t), !.keep = Keep(built)]]
        BY <1>3, <2>1 DEF Judge
      <4>2. call \in [Sessions -> Calls] /\ call[t] \in Calls
        BY DEF TypeOK, Calls
      <4>3. call'[t] = [call[t] EXCEPT !.pc = "judged", !.gone = Gone(t), !.keep = Keep(built)]
        BY <4>1, <4>2
      <4>4. call'[t] = [pc |-> "judged", age |-> call[t].age, holder |-> call[t].holder,
                        gone |-> Gone(t), keep |-> Keep(built)]
        BY <4>2, <4>3 DEF Calls
      <4> QED
        BY <4>4
    <3>3. Gone(t) => call[t].holder = t \/ call[t].holder \notin alive
      BY DEF Gone, GoneNow
    <3>4. Keep(built) >= MinKeep
      BY KeepBounds DEF TypeOK
    <3> QED
      BY <3>1, <3>2, <3>3, <3>4
  <2>2. CASE t # s
    BY <1>1, <1>3, <2>2 DEF Judge, TypeOK
  <2> QED
    BY <2>1, <2>2
<1>4. ASSUME NEW s \in Sessions,
             Start(s) \/ ReadHolder(s) \/ TryMark(s) \/ CheckMark(s) \/ End(s) \/ EndUnhandled(s) \/ Die(s)
      PROVE  /\ call'[t].keep >= MinKeep
             /\ call'[t].gone => call'[t].holder = t \/ call'[t].holder \notin alive'
  <2>1. call \in [Sessions -> Calls]
    BY DEF TypeOK, Calls
  <2>2. ASSUME t = s PROVE FALSE
    <3>1. CASE Start(s)
      BY <2>1, <2>2, <3>1 DEF Start, NoCall
    <3>2. CASE CheckMark(s)
      BY <2>1, <2>2, <3>2 DEF CheckMark, NoCall
    <3>3. CASE End(s) \/ EndUnhandled(s) \/ Die(s)
      BY <2>1, <2>2, <3>3 DEF End, EndUnhandled, Die, NoCall
    <3>4. CASE ReadHolder(s) \/ TryMark(s)
      BY <2>1, <2>2, <3>4 DEF ReadHolder, TryMark, Calls
    <3> QED
      BY <1>4, <3>1, <3>2, <3>3, <3>4
  <2>3. call'[t] = call[t] /\ alive' \subseteq alive
    BY <1>4, <2>1, <2>2 DEF Start, ReadHolder, TryMark, CheckMark, End, EndUnhandled, Die
  <2> QED
    BY <1>1, <2>3
<1>5. ASSUME NEW s \in Sessions, Record(s)
      PROVE  /\ call'[t].keep >= MinKeep
             /\ call'[t].gone => call'[t].holder = t \/ call'[t].holder \notin alive'
  BY <1>1, <1>5 DEF Record
<1>6. CASE UNCHANGED vars
  BY <1>1, <1>6 DEF vars
<1> QED
  BY <1>2, <1>3, <1>4, <1>5, <1>6 DEF Next, Attempt

\* No other call may take the mark of a refresh that runs and is young.
LEMMA YoungMarkKept ==
    ASSUME IInv, NEW s \in Sessions, NEW t \in Sessions, call[s].pc = "running", call[s].age <= MinKeep,
           call[t].pc = "judged"
    PROVE  ~Free(t)
<1>1. mark.by = s /\ mark.age = call[s].age /\ mark.by # "none"
  BY MarkConstants DEF IInv, RunningIsMarked, Running, Marked
<1>2. ~(mark.age > call[t].age + call[t].keep)
  BY <1>1, MarkConstants, KeepBounds DEF IInv, Judged, TypeOK
<1>3. s \in alive
  BY DEF IInv, TypeOK, NoCall
<1>4. ~(call[t].gone /\ mark.by = call[t].holder)
  BY <1>1, <1>3 DEF IInv, Judged
<1> QED
  BY <1>1, <1>2, <1>4 DEF Free

\* A young refresh keeps its mark.
LEMMA MarkedStep == IInv /\ [Next]_vars => RunningIsMarked'
<1> SUFFICES ASSUME IInv, [Next]_vars, NEW s \in Sessions, call'[s].pc = "running", call'[s].age <= MinKeep
             PROVE  mark'.by = s /\ mark'.age = call'[s].age
  BY DEF RunningIsMarked, Running, Marked
<1> USE DEF IInv
<1>1. ASSUME call[s].pc = "running", call[s].age <= MinKeep
      PROVE  mark.by = s /\ mark.age = call[s].age
  BY <1>1 DEF RunningIsMarked, Running, Marked
<1>2. CASE Tick
  <2>1. call'[s] = [call[s] EXCEPT !.age = Older(call[s].age)] /\ call[s].pc = "running"
    BY <1>2 DEF Tick, TypeOK
  <2>2. call[s].age <= MinKeep /\ call'[s].age = Older(call[s].age)
    BY <2>1, OlderAges, KeepBounds, MarkConstants DEF TypeOK
  <2> QED
    BY <1>1, <1>2, <2>1, <2>2, MarkConstants DEF Tick, TypeOK
<1>3. ASSUME NEW t \in Sessions, TryMark(t) PROVE mark'.by = s /\ mark'.age = call'[s].age
  <2>1. s # t /\ call'[s] = call[s]
    BY <1>3 DEF TryMark, TypeOK
  <2>2. ~Free(t)
    BY <1>3, <2>1, YoungMarkKept DEF TryMark
  <2> QED
    BY <1>1, <1>3, <2>1, <2>2 DEF TryMark
<1>4. ASSUME NEW t \in Sessions, CheckMark(t) PROVE mark'.by = s /\ mark'.age = call'[s].age
  <2>1. CASE s = t
    BY <1>4, <2>1 DEF CheckMark, Marked, NoCall, TypeOK
  <2>2. CASE s # t
    BY <1>1, <1>4, <2>2 DEF CheckMark, TypeOK
  <2> QED
    BY <2>1, <2>2
<1>5. ASSUME NEW t \in Sessions, End(t) PROVE mark'.by = s /\ mark'.age = call'[s].age
  <2>1. s # t /\ call'[s] = call[s]
    BY <1>5 DEF End, NoCall, TypeOK
  <2> QED
    BY <1>1, <1>5, <2>1 DEF End, Cleared, Marked
<1>6. ASSUME NEW t \in Sessions, Start(t) \/ ReadHolder(t) \/ Judge(t) \/ Record(t) \/ EndUnhandled(t) \/ Die(t)
      PROVE  mark'.by = s /\ mark'.age = call'[s].age
  <2>1. call'[s] = call[s] /\ mark' = mark
    BY <1>6 DEF Start, ReadHolder, Judge, Record, EndUnhandled, Die, NoCall, TypeOK
  <2> QED
    BY <1>1, <2>1
<1>7. CASE UNCHANGED vars
  BY <1>1, <1>7 DEF vars
<1> QED
  BY <1>2, <1>3, <1>4, <1>5, <1>6, <1>7 DEF Next, Attempt

LEMMA InvStep == IInv /\ [Next]_vars => IInv'
BY TypeStep, JudgedStep, MarkedStep DEF IInv

\* Every reachable state is well typed.
THEOREM MarkTypes == Spec => []TypeOK
<1>1. IInv => TypeOK
  BY DEF IInv
<1> QED
  BY InitInv, InvStep, <1>1, PTL DEF Spec

\* A refresh that has not run longer than a mark is kept has its mark on the row.
THEOREM YoungIsMarked == Spec => []RunningIsMarked
<1>1. IInv => RunningIsMarked
  BY DEF IInv
<1> QED
  BY InitInv, InvStep, <1>1, PTL DEF Spec

\* Of two refreshes that run at the same time one has run longer than a mark is kept.
THEOREM OneYoungRefresh == Spec => []SingleRefresh
<1>1. IInv => SingleRefresh
  BY MarkConstants DEF IInv, SingleRefresh, RunningIsMarked, Running, Marked, TypeOK
<1> QED
  BY InitInv, InvStep, <1>1, PTL DEF Spec
===============================================================================
