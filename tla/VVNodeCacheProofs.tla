--------------------------- MODULE VVNodeCacheProofs ---------------------------
(***************************************************************************)
(* Theorems about VVNodeCache, for every set of threads, every time ACTIVE *)
(* is trusted and every value of the bounds.                               *)
(*                                                                         *)
(* Outline.  The directory (DirInv): what ACTIVE names is there, and a     *)
(* load that has replaced ACTIVE keeps the file ACTIVE named before.  A    *)
(* thread between its two reads (GraceInv): no load, one load or more      *)
(* replaced ACTIVE since; with one, the file it is about to open is the    *)
(* one that load keeps.  The clock (TimeInv): what the process knows of    *)
(* ACTIVE was true at the time it is stamped with or later.                *)
(***************************************************************************)
EXTENDS VVNodeCache, TLAPS

\* The directory and the load that changes it.
DirInv ==
    /\ ActiveResolves
    /\ load.pc # "idle" => load.sid \in Sids
    /\ load.pc \in {"verified", "renamed"} => load.prev = active
    /\ load.pc \in {"renamed", "active"} => load.sid \in files
    /\ load.pc = "active" => active = load.sid
    /\ load.pc \in {"open", "kept"} => load.temp # "none"

\* What may have happened to the file of a thread that has read ACTIVE.
GraceInv ==
    \A t \in Threads : open[t].pc = "path" =>
        /\ open[t].id \in Sids /\ open[t].swaps <= swaps
        /\ swaps = open[t].swaps => active = open[t].id
        /\ swaps = open[t].swaps + 1 => open[t].id \in files /\ (load.pc = "active" => load.prev = open[t].id)

\* The times the process keeps, against the last time a snapshot was the active one.
TimeInv ==
    /\ \A s \in Sids : lastActive[s] <= now
    /\ active # 0 => lastActive[active] = now
    /\ state.sid # 0 => state.checked <= lastActive[state.sid]
    /\ \A t \in Threads :
          /\ open[t].pc # "idle" => open[t].start <= now
          /\ open[t].pc = "path" => open[t].id \in Sids /\ open[t].start <= lastActive[open[t].id]
          /\ open[t].pc = "done" => open[t].id \in Sids

IInv == TypeOK /\ DirInv /\ GraceInv /\ OneLoadOfGrace /\ TimeInv /\ NoticedInTime

\* The steps by what they change: of the load alone, of one thread alone.
QuietLoad ==
    \/ \E s \in Sids, base \in 0..MaxSid : Begin(s, base)
    \/ WriteHeader \/ Keep \/ Resume \/ Verify \/ LoadEnds \/ LoadFails \/ LoadCrash
OpenStep(t) ==
    \/ \E s \in 0..MaxSid : OpenStart(t, s)
    \/ TrustState(t) \/ ReadActive(t) \/ OpenFile(t) \/ OpenEnds(t)

LEMMA NextSteps ==
    Next <=> \/ Tick \/ QuietLoad \/ Rename \/ Activate \/ Sweep
             \/ (\E t \in Threads : OpenStep(t))
             \/ ProcessCrash
BY DEF Next, QuietLoad, OpenStep

\* The types of a load and of a call of open_active.
Loads ==
    [pc : {"idle", "open", "kept", "verified", "renamed", "active"}, sid : 0..MaxSid,
     temp : {"none", "empty", "magic"}, prev : 0..MaxSid]
Opens ==
    [pc : {"idle", "start", "path", "done", "none", "missing"}, start : 0..MaxTime,
     atLeast : 0..MaxSid, id : 0..MaxSid, swaps : Nat]
DirTypes ==
    /\ files \subseteq Sids /\ active \in 0..MaxSid /\ strays \subseteq {"empty", "magic"}
    /\ load \in Loads
    /\ swaps \in Nat /\ now \in 0..MaxTime
    /\ lastActive \in [Sids -> 0..MaxTime]
ReadTypes ==
    /\ state \in [sid : 0..MaxSid, checked : 0..MaxTime]
    /\ open \in [Threads -> Opens]
    /\ lock \in Threads \cup {"free"} /\ \A t \in Threads : lock = t <=> open[t].pc = "path"

LEMMA Types == (TypeOK <=> DirTypes /\ ReadTypes) /\ (TypeOK' <=> DirTypes' /\ ReadTypes')
BY DEF TypeOK, DirTypes, ReadTypes, Loads, Opens

LEMMA InitInv == Init => IInv
<1> SUFFICES ASSUME Init PROVE IInv
  OBVIOUS
<1>1. TypeOK
  <2>1. DirTypes
    BY NodeCacheConstants DEF Init, DirTypes, Sids, Loads, NoLoad
  <2>2. ReadTypes
    BY NodeCacheConstants DEF Init, ReadTypes, Opens, NoOpen, NoState
  <2> QED
    BY <2>1, <2>2, Types
<1>2. DirInv
  BY DEF Init, DirInv, ActiveResolves, NoLoad
<1>3. GraceInv /\ OneLoadOfGrace
  BY DEF Init, GraceInv, OneLoadOfGrace, NoOpen
<1>4. TimeInv /\ NoticedInTime
  BY DEF Init, TimeInv, NoticedInTime, NoOpen, NoState
<1> QED
  BY <1>1, <1>2, <1>3, <1>4 DEF IInv

\* A step of the load alone, which never ends with ACTIVE replaced.
LEMMA QuietLoadFrame ==
    ASSUME DirTypes, DirInv, QuietLoad
    PROVE  /\ UNCHANGED <<files, active, swaps, now, lastActive>>
           /\ strays' \subseteq {"empty", "magic"} /\ load' \in Loads /\ load'.pc # "active"
<1>1. load \in Loads /\ strays \subseteq {"empty", "magic"}
  BY DEF DirTypes
<1>2. NoLoad \in Loads /\ NoLoad.pc # "active"
  BY NodeCacheConstants DEF NoLoad, Loads
<1>3. ASSUME NEW s \in Sids, NEW base \in 0..MaxSid, Begin(s, base)
      PROVE  strays' = strays /\ load' \in Loads /\ load'.pc # "active"
  <2> DEFINE held == IF base = 0 THEN "empty" ELSE "magic"
  <2>1. load' = [pc |-> "open", sid |-> s, temp |-> held, prev |-> 0]
    BY <1>3 DEF Begin, NoLoad
  <2>2. s \in 0..MaxSid /\ 0 \in 0..MaxSid /\ held \in {"none", "empty", "magic"}
    BY NodeCacheConstants DEF Sids
  <2>3. load' \in Loads /\ load'.pc # "active"
    BY <2>1, <2>2 DEF Loads
  <2> QED
    BY <1>3, <2>3 DEF Begin, dirVars
<1>4. ASSUME WriteHeader \/ Keep \/ Resume \/ Verify
      PROVE  strays' = strays /\ load' \in Loads /\ load'.pc # "active"
  <2>1. CASE WriteHeader
    BY <1>1, <2>1 DEF WriteHeader, Loads, dirVars
  <2>2. CASE Keep \/ Resume
    BY <1>1, <2>2 DEF Keep, Resume, Loads, dirVars
  <2>3. CASE Verify
    BY <1>1, <2>3 DEF Verify, Loads, DirTypes, dirVars
  <2> QED
    BY <1>4, <2>1, <2>2, <2>3
<1>5. ASSUME LoadEnds \/ LoadFails \/ LoadCrash
      PROVE  strays' \subseteq {"empty", "magic"} /\ load' = NoLoad
  <2>1. load.temp \in {"none", "empty", "magic"} /\ (load.pc = "kept" => load.temp # "none")
    BY <1>1 DEF Loads, DirInv
  <2> QED
    BY <1>1, <1>5, <2>1 DEF LoadEnds, LoadFails, LoadCrash, dirVars
<1>6. UNCHANGED <<files, active, swaps, now, lastActive>>
  BY DEF QuietLoad, Begin, WriteHeader, Keep, Resume, Verify, LoadEnds, LoadFails, LoadCrash, dirVars
<1> QED
  BY <1>1, <1>2, <1>3, <1>4, <1>5, <1>6 DEF QuietLoad

\* Every step keeps the types of the directory and of the load.
LEMMA DirTypeStep == TypeOK /\ DirInv /\ Next => DirTypes'
<1> SUFFICES ASSUME DirTypes, DirInv, Next PROVE DirTypes'
  BY Types
<1> USE NodeCacheConstants
<1>1. CASE Tick
  BY <1>1 DEF Tick, DirTypes, dirVars, Sids
<1>2. CASE QuietLoad
  BY <1>2, QuietLoadFrame DEF DirTypes
<1>3. CASE Rename
  BY <1>3 DEF Rename, DirTypes, DirInv, Loads
<1>4. CASE Activate
  <2>1. load.sid \in Sids /\ load.sid \in 0..MaxSid
    BY <1>4 DEF Activate, DirInv, DirTypes, Loads
  <2>2. load' \in Loads
    BY <1>4 DEF Activate, DirTypes, Loads
  <2> QED
    BY <1>4, <2>1, <2>2 DEF Activate, DirTypes
<1>5. CASE Sweep
  BY <1>5 DEF Sweep, DirTypes
<1>6. ASSUME NEW t \in Threads, OpenStep(t) PROVE DirTypes'
  BY <1>6 DEF OpenStep, OpenStart, TrustState, ReadActive, OpenFile, OpenEnds, dirVars, DirTypes
<1>7. CASE ProcessCrash
  BY <1>7 DEF ProcessCrash, dirVars, DirTypes
<1> QED
  BY <1>1, <1>2, <1>3, <1>4, <1>5, <1>6, <1>7, NextSteps

\* What the steps of a thread leave it at.
LEMMA OpenLeaves ==
    ASSUME ReadTypes, NEW t \in Threads
    PROVE  /\ \A s \in 0..MaxSid : OpenStart(t, s) => open'[t].pc = "start" /\ open'[t].start = now
           /\ TrustState(t) => open'[t].pc = "done"
           /\ OpenFile(t) => open'[t].pc \in {"done", "missing"}
           /\ ReadActive(t) => open'[t].pc \in {"none", "path"}
           /\ OpenEnds(t) => open'[t].pc = "idle"
<1>1. open \in [Threads -> Opens] /\ open[t] \in Opens
  BY DEF ReadTypes
<1>2. ASSUME NEW s \in 0..MaxSid, OpenStart(t, s) PROVE open'[t].pc = "start" /\ open'[t].start = now
  BY <1>1, <1>2 DEF OpenStart, NoOpen
<1>3. TrustState(t) => open'[t].pc = "done"
  BY <1>1 DEF TrustState, Opens
<1>4. OpenFile(t) => open'[t].pc \in {"done", "missing"}
  BY <1>1 DEF OpenFile, Opens
<1>5. ReadActive(t) => open'[t].pc \in {"none", "path"}
  BY <1>1 DEF ReadActive, Opens
<1>6. OpenEnds(t) => open'[t].pc = "idle"
  BY <1>1 DEF OpenEnds, NoOpen
<1> QED
  BY <1>2, <1>3, <1>4, <1>5, <1>6

\* A step that leaves the process alone.
LEMMA DirStepKeepsReads == Tick \/ QuietLoad \/ Rename \/ Activate \/ Sweep => UNCHANGED <<state, lock, open>>
BY DEF Tick, QuietLoad, Begin, WriteHeader, Keep, Resume, Verify, LoadEnds, LoadFails, LoadCrash, Rename,
       Activate, Sweep, readVars

\* Every step keeps the types of what the process knows.
LEMMA ReadTypeStep == TypeOK /\ Next => ReadTypes'
<1> SUFFICES ASSUME DirTypes, ReadTypes, Next PROVE ReadTypes'
  BY Types
<1> USE NodeCacheConstants
<1>1. CASE Tick \/ QuietLoad \/ Rename \/ Activate \/ Sweep
  BY <1>1, DirStepKeepsReads DEF ReadTypes
<1>2. ASSUME NEW t \in Threads, NEW s \in 0..MaxSid, OpenStart(t, s) PROVE ReadTypes'
  <2>1. [NoOpen EXCEPT !.pc = "start", !.start = now, !.atLeast = s] \in Opens
    <3>1. [NoOpen EXCEPT !.pc = "start", !.start = now, !.atLeast = s] \in
            [pc : {"start"}, start : {now}, atLeast : {s}, id : {0}, swaps : {0}]
      BY DEF NoOpen
    <3>2. 0 \in 0..MaxSid /\ now \in 0..MaxTime /\ 0 \in Nat
      BY DEF DirTypes
    <3> QED
      BY <3>1, <3>2 DEF Opens
  <2> QED
    BY <1>2, <2>1 DEF OpenStart, ReadTypes, NoOpen
<1>3. ASSUME NEW t \in Threads, TrustState(t) PROVE ReadTypes'
  BY <1>3, ZenonT(40) DEF TrustState, ReadTypes, Opens
<1>4. ASSUME NEW t \in Threads, ReadActive(t) PROVE ReadTypes'
  <2>1. CASE active = 0
    BY <1>4, <2>1 DEF ReadActive, ReadTypes, Opens, NoState
  <2>2. CASE active # 0
    BY <1>4, <2>2 DEF ReadActive, ReadTypes, Opens, DirTypes
  <2> QED
    BY <2>1, <2>2
<1>5. ASSUME NEW t \in Threads, OpenFile(t) PROVE ReadTypes'
  BY <1>5 DEF OpenFile, ReadTypes, Opens, NoState
<1>6. ASSUME NEW t \in Threads, OpenEnds(t) PROVE ReadTypes'
  BY <1>6 DEF OpenEnds, ReadTypes, Opens, NoOpen
<1>7. CASE ProcessCrash
  BY <1>7 DEF ProcessCrash, ReadTypes, Opens, NoOpen, NoState
<1> QED
  BY <1>1, <1>2, <1>3, <1>4, <1>5, <1>6, <1>7, NextSteps DEF OpenStep

\* Every step keeps the directory sound.
LEMMA DirStep == TypeOK /\ DirInv /\ Next => DirInv'
<1> SUFFICES ASSUME DirTypes, DirInv, Next PROVE DirInv'
  BY Types
<1> USE DEF DirInv, ActiveResolves
<1>1. CASE Tick
  BY <1>1 DEF Tick, dirVars
<1>2. CASE QuietLoad
  <2>1. files' = files /\ active' = active
    BY <1>2 DEF QuietLoad, Begin, WriteHeader, Keep, Resume, Verify, LoadEnds, LoadFails, LoadCrash, dirVars
  <2>2. CASE LoadEnds \/ LoadFails \/ LoadCrash
    BY <2>1, <2>2 DEF LoadEnds, LoadFails, LoadCrash, NoLoad
  <2>3. CASE \E s \in Sids, base \in 0..MaxSid : Begin(s, base)
    BY <2>1, <2>3 DEF Begin, NoLoad
  <2>4. CASE WriteHeader \/ Keep \/ Resume \/ Verify
    BY <2>1, <2>4 DEF WriteHeader, Keep, Resume, Verify, DirTypes, Loads
  <2> QED
    BY <1>2, <2>2, <2>3, <2>4 DEF QuietLoad
<1>3. CASE Rename
  BY <1>3 DEF Rename, DirTypes, Loads
<1>4. CASE Activate
  BY <1>4 DEF Activate, DirTypes, Loads
<1>5. CASE Sweep
  BY <1>5 DEF Sweep, Kept
<1>6. ASSUME NEW t \in Threads, OpenStep(t) PROVE DirInv'
  BY <1>6 DEF OpenStep, OpenStart, TrustState, ReadActive, OpenFile, OpenEnds, dirVars
<1>7. CASE ProcessCrash
  BY <1>7 DEF ProcessCrash, dirVars
<1> QED
  BY <1>1, <1>2, <1>3, <1>4, <1>5, <1>6, <1>7, NextSteps

\* A step of one thread leaves the directory, the load and the clock alone, and the other threads.
LEMMA OpenStepFrame ==
    ASSUME ReadTypes, NEW t \in Threads, OpenStep(t)
    PROVE  /\ UNCHANGED <<dirVars, load, swaps, now, lastActive>>
           /\ \A u \in Threads : u # t => open'[u] = open[u]
BY DEF OpenStep, OpenStart, TrustState, ReadActive, OpenFile, OpenEnds, ReadTypes

\* The file of a thread that has read ACTIVE stays until a second load begins to clean up.
LEMMA GraceStep == TypeOK /\ DirInv /\ GraceInv /\ Next => GraceInv'
<1> SUFFICES ASSUME DirTypes, ReadTypes, DirInv, GraceInv, Next, NEW t \in Threads, open'[t].pc = "path"
             PROVE  /\ open'[t].id \in Sids /\ open'[t].swaps <= swaps'
                    /\ swaps' = open'[t].swaps => active' = open'[t].id
                    /\ swaps' = open'[t].swaps + 1 =>
                          open'[t].id \in files' /\ (load'.pc = "active" => load'.prev = open'[t].id)
  BY Types DEF GraceInv
<1> DEFINE Same == open'[t] = open[t]
<1>a. Same => /\ open[t].id \in Sids /\ open[t].swaps <= swaps /\ open[t].swaps \in Nat
              /\ swaps = open[t].swaps => active = open[t].id
              /\ swaps = open[t].swaps + 1 => open[t].id \in files /\ (load.pc = "active" => load.prev = open[t].id)
  BY DEF GraceInv, ReadTypes, Opens
<1>b. Tick \/ QuietLoad \/ Rename \/ Activate \/ Sweep => Same
  BY DirStepKeepsReads
<1>1. CASE Tick
  BY <1>1, <1>a, <1>b DEF Tick, dirVars
<1>2. CASE QuietLoad
  <2>1. UNCHANGED <<files, active, swaps>> /\ load'.pc # "active"
    BY <1>2, QuietLoadFrame
  <2> QED
    BY <1>2, <1>a, <1>b, <2>1
<1>3. CASE Rename
  BY <1>3, <1>a, <1>b DEF Rename, DirTypes, Loads
<1>4. CASE Activate
  <2>1. files' = files /\ active' = load.sid /\ swaps' = swaps + 1 /\ load'.prev = load.prev
    BY <1>4 DEF Activate, DirTypes, Loads
  <2>2. load.prev = active
    BY <1>4 DEF Activate, DirInv
  <2>3. open[t].id = active => open[t].id \in files
    BY <1>4, <1>a, <1>b, NodeCacheConstants DEF DirInv, ActiveResolves, Sids
  <2> QED
    BY <1>4, <1>a, <1>b, <2>1, <2>2, <2>3 DEF DirTypes
<1>5. CASE Sweep
  <2>1. load.pc = "active" /\ UNCHANGED <<active, load, swaps>> /\ files \cap Kept \subseteq files'
    BY <1>5 DEF Sweep
  <2> QED
    BY <1>5, <1>a, <1>b, <2>1 DEF Kept
<1>6. ASSUME NEW u \in Threads, OpenStep(u)
      PROVE  /\ open'[t].id \in Sids /\ open'[t].swaps <= swaps'
             /\ swaps' = open'[t].swaps => active' = open'[t].id
             /\ swaps' = open'[t].swaps + 1 =>
                   open'[t].id \in files' /\ (load'.pc = "active" => load'.prev = open'[t].id)
  <2>1. UNCHANGED <<dirVars, load, swaps, now, lastActive>>
    BY <1>6, OpenStepFrame
  <2>2. CASE u # t
    BY <1>6, <1>a, <2>1, <2>2, OpenStepFrame DEF dirVars
  <2>3. CASE u = t
    <3>1. active # 0 /\ open'[t].id = active /\ open'[t].swaps = swaps
      <4>1. ReadActive(t)
        BY <1>6, <2>3, OpenLeaves DEF OpenStep
      <4> QED
        BY <4>1 DEF ReadActive, ReadTypes, Opens
    <3> QED
      BY <2>1, <3>1, NodeCacheConstants DEF DirTypes, Sids, dirVars
  <2> QED
    BY <2>2, <2>3
<1>7. CASE ProcessCrash
  BY <1>7 DEF ProcessCrash, NoOpen
<1> QED
  BY <1>1, <1>2, <1>3, <1>4, <1>5, <1>6, <1>7, NextSteps

\* Time and the count of loads do not go back.
LEMMA Forward ==
    TypeOK /\ DirInv /\ Next => /\ swaps' >= swaps /\ now' >= now
                                /\ (\A s \in Sids : lastActive[s] <= now) => \A s \in Sids : lastActive'[s] >= lastActive[s]
<1> SUFFICES ASSUME DirTypes, DirInv, Next
             PROVE  /\ swaps' >= swaps /\ now' >= now
                    /\ (\A s \in Sids : lastActive[s] <= now) => \A s \in Sids : lastActive'[s] >= lastActive[s]
  BY Types
<1>1. CASE Tick
  BY <1>1, NodeCacheConstants DEF Tick, DirTypes, Sids
<1>2. CASE Activate
  BY <1>2, NodeCacheConstants DEF Activate, DirTypes, Sids
<1>3. CASE QuietLoad \/ Rename \/ Sweep \/ ProcessCrash \/ \E t \in Threads : OpenStep(t)
  <2>1. swaps' = swaps /\ now' = now /\ lastActive' = lastActive
    BY <1>3 DEF QuietLoad, Begin, WriteHeader, Keep, Resume, Verify, LoadEnds, LoadFails, LoadCrash, Rename, Sweep,
                ProcessCrash, OpenStep, OpenStart, TrustState, ReadActive, OpenFile, OpenEnds
  <2> QED
    BY <2>1, NodeCacheConstants DEF DirTypes, Sids
<1> QED
  BY <1>1, <1>2, <1>3, NextSteps

\* A thread that found its file gone has seen two loads.
LEMMA MissingStep == TypeOK /\ DirInv /\ GraceInv /\ OneLoadOfGrace /\ Next => OneLoadOfGrace'
<1> SUFFICES ASSUME TypeOK, DirInv, GraceInv, OneLoadOfGrace, Next, NEW t \in Threads, open'[t].pc = "missing"
             PROVE  swaps' >= open'[t].swaps + 2
  BY DEF OneLoadOfGrace
<1>t. DirTypes /\ ReadTypes
  BY Types
<1>n. swaps \in Nat /\ swaps' \in Nat /\ open[t].swaps \in Nat /\ swaps' >= swaps
  BY <1>t, Forward, DirTypeStep DEF ReadTypes, Opens, DirTypes
<1>1. open'[t] = open[t] => swaps' >= open'[t].swaps + 2
  BY <1>n DEF OneLoadOfGrace
<1>2. CASE Tick \/ QuietLoad \/ Rename \/ Activate \/ Sweep
  BY <1>1, <1>2, DirStepKeepsReads
<1>3. ASSUME NEW u \in Threads, OpenStep(u) PROVE swaps' >= open'[t].swaps + 2
  <2>1. CASE u # t
    BY <1>t, <1>1, <1>3, <2>1, OpenStepFrame
  <2>2. CASE u = t
    <3>1. open[t].pc = "path" /\ open[t].id \notin files /\ open'[t].swaps = open[t].swaps /\ swaps' = swaps
      <4>1. OpenFile(t)
        BY <1>t, <1>3, <2>2, OpenLeaves DEF OpenStep
      <4> QED
        BY <1>t, <4>1 DEF OpenFile, ReadTypes, Opens
    <3>2. swaps # open[t].swaps /\ swaps # open[t].swaps + 1 /\ open[t].swaps <= swaps
      BY <3>1, NodeCacheConstants DEF GraceInv, DirInv, ActiveResolves, Sids
    <3> QED
      BY <1>n, <3>1, <3>2
  <2> QED
    BY <2>1, <2>2
<1>4. CASE ProcessCrash
  BY <1>4 DEF ProcessCrash, NoOpen
<1> QED
  BY <1>2, <1>3, <1>4, NextSteps

\* What the process knows of ACTIVE is stamped with a time it was true at or later.
LEMMA TimeStep == TypeOK /\ DirInv /\ TimeInv /\ NoticedInTime /\ Next => TimeInv' /\ NoticedInTime'
<1> SUFFICES ASSUME TypeOK, DirInv, TimeInv, NoticedInTime, Next PROVE TimeInv' /\ NoticedInTime'
  OBVIOUS
<1>t. DirTypes /\ ReadTypes
  BY Types
<1>t1. DirTypes' /\ ReadTypes'
  BY DirTypeStep, ReadTypeStep
<1>f. now' >= now /\ \A s \in Sids : lastActive'[s] >= lastActive[s]
  BY Forward DEF TimeInv
<1>n. /\ now \in Nat /\ now' \in Nat /\ Trust \in Nat /\ Trust > 0
      /\ \A s \in Sids : lastActive[s] \in Nat /\ lastActive'[s] \in Nat
  BY <1>t, <1>t1, NodeCacheConstants DEF DirTypes
<1>1. (\A s \in Sids : lastActive'[s] <= now') /\ (active' # 0 => lastActive'[active'] = now')
  <2>1. CASE Tick
    BY <1>t, <1>n, <2>1, NodeCacheConstants DEF Tick, TimeInv, DirTypes, Sids, dirVars
  <2>2. CASE Activate
    BY <1>t, <1>n, <2>2, NodeCacheConstants DEF Activate, TimeInv, DirTypes, Sids, DirInv
  <2>3. CASE QuietLoad \/ Rename \/ Sweep \/ ProcessCrash \/ \E t \in Threads : OpenStep(t)
    <3>1. active' = active /\ now' = now /\ lastActive' = lastActive
      BY <2>3 DEF QuietLoad, Begin, WriteHeader, Keep, Resume, Verify, LoadEnds, LoadFails, LoadCrash, Rename, Sweep,
                  ProcessCrash, OpenStep, OpenStart, TrustState, ReadActive, OpenFile, OpenEnds, dirVars
    <3> QED
      BY <3>1 DEF TimeInv
  <2> QED
    BY <2>1, <2>2, <2>3, NextSteps
<1>2. ASSUME state' = state /\ open' = open
      PROVE  TimeInv' /\ NoticedInTime'
  <2>1. state'.sid # 0 => state'.checked <= lastActive'[state'.sid]
    BY <1>2, <1>t, <1>f, <1>n, NodeCacheConstants DEF TimeInv, ReadTypes, Sids
  <2>2. ASSUME NEW t \in Threads
        PROVE  /\ open'[t].pc # "idle" => open'[t].start <= now'
               /\ open'[t].pc = "path" => open'[t].id \in Sids /\ open'[t].start <= lastActive'[open'[t].id]
               /\ open'[t].pc = "done" => open'[t].id \in Sids
               /\ open'[t].pc = "done" => open'[t].start < lastActive'[open'[t].id] + Trust
    <3>1. open[t].start \in Nat
      BY <1>t, NodeCacheConstants DEF ReadTypes, Opens
    <3> QED
      BY <1>2, <1>f, <1>n, <3>1 DEF TimeInv, NoticedInTime
  <2> QED
    BY <1>1, <2>1, <2>2 DEF TimeInv, NoticedInTime
<1>3. ASSUME NEW u \in Threads, OpenStep(u) PROVE TimeInv' /\ NoticedInTime'
  <2>1. UNCHANGED <<dirVars, load, swaps, now, lastActive>> /\ \A t \in Threads : t # u => open'[t] = open[t]
    BY <1>t, <1>3, OpenStepFrame
  <2>2. open[u].start \in Nat /\ state.checked \in Nat
    BY <1>t, NodeCacheConstants DEF ReadTypes, Opens
  <2>3. /\ state'.sid # 0 => state'.checked <= lastActive[state'.sid]
        /\ open'[u].pc # "idle" => open'[u].start <= now
        /\ open'[u].pc = "path" => open'[u].id \in Sids /\ open'[u].start <= lastActive[open'[u].id]
        /\ open'[u].pc = "done" => open'[u].id \in Sids /\ open'[u].start < lastActive[open'[u].id] + Trust
    <3>1. ASSUME NEW s \in 0..MaxSid, OpenStart(u, s)
          PROVE  state' = state /\ open'[u].pc = "start" /\ open'[u].start = now
      BY <1>t, <3>1 DEF OpenStart, ReadTypes, NoOpen
    <3>2. CASE TrustState(u)
      <4>1. /\ state' = state /\ state.sid # 0 /\ open[u].start < state.checked + Trust /\ open[u].pc = "start"
            /\ open'[u].pc = "done" /\ open'[u].id = state.sid /\ open'[u].start = open[u].start
        BY <1>t, <3>2 DEF TrustState, Fresh, ReadTypes, Opens
      <4>2. state.sid \in Sids
        BY <1>t, <4>1, NodeCacheConstants DEF ReadTypes, Sids
      <4> QED
        BY <1>n, <2>2, <4>1, <4>2 DEF TimeInv
    <3>3. CASE ReadActive(u)
      <4>1. CASE active = 0
        BY <1>t, <3>3, <4>1 DEF ReadActive, ReadTypes, Opens, NoState, TimeInv
      <4>2. CASE active # 0
        <5>1. /\ state' = state /\ open[u].pc = "start"
              /\ open'[u].pc = "path" /\ open'[u].id = active /\ open'[u].start = open[u].start
          BY <1>t, <3>3, <4>2 DEF ReadActive, ReadTypes, Opens
        <5>2. active \in Sids /\ lastActive[active] = now
          BY <1>t, <4>2, NodeCacheConstants DEF DirTypes, Sids, TimeInv
        <5> QED
          BY <5>1, <5>2 DEF TimeInv
      <4> QED
        BY <4>1, <4>2
    <3>4. CASE OpenFile(u)
      <4>1. /\ open[u].pc = "path" /\ open'[u].id = open[u].id /\ open'[u].start = open[u].start
            /\ open'[u].pc \in {"done", "missing"}
            /\ state'.sid = 0 \/ (state'.sid = open[u].id /\ state'.checked = open[u].start)
        BY <1>t, <3>4 DEF OpenFile, ReadTypes, Opens, NoState
      <4>2. open[u].id \in Sids /\ open[u].start <= lastActive[open[u].id] /\ open[u].start <= now
        BY <4>1 DEF TimeInv
      <4> QED
        BY <1>n, <2>2, <4>1, <4>2
    <3>5. CASE OpenEnds(u)
      BY <1>t, <3>5 DEF OpenEnds, ReadTypes, NoOpen, TimeInv
    <3>6. now <= now
      BY <1>n
    <3> QED
      BY <1>3, <3>1, <3>2, <3>3, <3>4, <3>5, <3>6 DEF OpenStep, TimeInv
  <2>4. ASSUME NEW t \in Threads
        PROVE  /\ open'[t].pc # "idle" => open'[t].start <= now'
               /\ open'[t].pc = "path" => open'[t].id \in Sids /\ open'[t].start <= lastActive'[open'[t].id]
               /\ open'[t].pc = "done" => open'[t].id \in Sids
               /\ open'[t].pc = "done" => open'[t].start < lastActive'[open'[t].id] + Trust
    BY <2>1, <2>3 DEF TimeInv, NoticedInTime
  <2> QED
    BY <1>1, <2>1, <2>3, <2>4 DEF TimeInv, NoticedInTime
<1>4. CASE ProcessCrash
  BY <1>1, <1>4 DEF ProcessCrash, TimeInv, NoticedInTime, NoOpen, NoState
<1> QED
  BY <1>2, <1>3, <1>4, NextSteps, DirStepKeepsReads

LEMMA InvStep == IInv /\ [Next]_vars => IInv'
<1> SUFFICES ASSUME IInv, [Next]_vars PROVE IInv'
  OBVIOUS
<1>1. CASE Next
  <2>1. TypeOK'
    BY <1>1, Types, DirTypeStep, ReadTypeStep DEF IInv
  <2> QED
    BY <1>1, <2>1, DirStep, GraceStep, MissingStep, TimeStep DEF IInv
<1>2. CASE UNCHANGED vars
  BY <1>2 DEF vars, dirVars, readVars, IInv, TypeOK, DirInv, ActiveResolves, GraceInv, OneLoadOfGrace, TimeInv,
              NoticedInTime
<1> QED
  BY <1>1, <1>2

\* Every reachable state is well typed.
THEOREM NodeCacheTypes == Spec => []TypeOK
<1>1. IInv => TypeOK
  BY DEF IInv
<1> QED
  BY InitInv, InvStep, <1>1, PTL DEF Spec

\* What ACTIVE names is there, whatever step of a load a crash follows.
THEOREM ActiveIsThere == Spec => []ActiveResolves
<1>1. IInv => ActiveResolves
  BY DEF IInv, DirInv
<1> QED
  BY InitInv, InvStep, <1>1, PTL DEF Spec

\* A file that was read from ACTIVE and cannot be opened was replaced twice since.
THEOREM FileOutlivesOneLoad == Spec => []OneLoadOfGrace
<1>1. IInv => OneLoadOfGrace
  BY DEF IInv
<1> QED
  BY InitInv, InvStep, <1>1, PTL DEF Spec

\* A query is not given a snapshot that had been replaced for longer than ACTIVE is trusted.
THEOREM NoStaleSnapshot == Spec => []NoticedInTime
<1>1. IInv => NoticedInTime
  BY DEF IInv
<1> QED
  BY InitInv, InvStep, <1>1, PTL DEF Spec
===============================================================================
