----------------------------- MODULE VVNodeCache -----------------------------
(***************************************************************************)
(* The cache directory of one index on one node, step by step: vload       *)
(* (class CacheWriter) replaces the active snapshot while the threads of a *)
(* query process open it (MappedSnapshot::open_active), and either process *)
(* may die between two steps.                                              *)
(*                                                                         *)
(* A snapshot file is its id: the commit verifies every byte before the    *)
(* rename.  A temporary file is "empty" until the header piece, which      *)
(* carries the magic, is in it.                                            *)
(***************************************************************************)
EXTENDS Naturals, FiniteSets

CONSTANTS
    Threads,        \* queries of one process, which share what it knows of the index
    Trust,          \* ACTIVE_CHECK_MS: how long ACTIVE is not read again
    MaxSid,         \* bound: snapshot ids
    MaxTime,        \* bound: the clock stops here
    MaxSwaps        \* bound: loads that replace ACTIVE

ASSUME NodeCacheConstants ==
    /\ "free" \notin Threads
    /\ Trust \in Nat \ {0} /\ MaxSid \in Nat /\ MaxTime \in Nat /\ MaxSwaps \in Nat

VARIABLES
    files,          \* the <sid>.vv files
    active,         \* the ACTIVE file, 0 = none
    strays,         \* temporary files nobody writes any more, by what they hold
    load,           \* the running vload; two at a time on one index are not supported
    swaps,          \* how often ACTIVE was replaced
    now,            \* the steady clock
    state,          \* the process's IndexState: mapped snapshot (0 = none) and when ACTIVE was read
    lock,           \* the thread that holds state_lock, or "free"
    open,           \* open[t]: a call of open_active
    lastActive      \* history: the last time each snapshot was the one ACTIVE names

dirVars == <<files, active, strays>>
readVars == <<state, lock, open>>
vars == <<dirVars, load, swaps, now, readVars, lastActive>>

Sids == 1..MaxSid
NoLoad == [pc |-> "idle", sid |-> 0, temp |-> "none", prev |-> 0]
NoOpen == [pc |-> "idle", start |-> 0, atLeast |-> 0, id |-> 0, swaps |-> 0]
NoState == [sid |-> 0, checked |-> 0]

Init ==
    /\ files = {} /\ active = 0 /\ strays = {}
    /\ load = NoLoad
    /\ swaps = 0 /\ now = 0
    /\ state = NoState /\ lock = "free"
    /\ open = [t \in Threads |-> NoOpen]
    /\ lastActive = [s \in Sids |-> 0]

Tick ==
    /\ now < MaxTime
    /\ now' = now + 1
    /\ lastActive' = IF active = 0 THEN lastActive ELSE [lastActive EXCEPT ![active] = now + 1]
    /\ UNCHANGED <<dirVars, load, swaps, readVars>>

------------------------------------------------------------------------------
(* vload.                                                                  *)

\* A temporary file; a patch starts as a copy of its base, header and all.
Begin(s, base) ==
    /\ load.pc = "idle" /\ swaps < MaxSwaps
    /\ base = 0 \/ (base \in files /\ base # s)
    /\ load' = [NoLoad EXCEPT !.pc = "open", !.sid = s,
                             !.temp = IF base = 0 THEN "empty" ELSE "magic"]
    /\ UNCHANGED <<dirVars, swaps, now, readVars, lastActive>>

\* The header piece; pieces come in any order.
WriteHeader ==
    /\ load.pc = "open" /\ load.temp = "empty"
    /\ load' = [load EXCEPT !.temp = "magic"]
    /\ UNCHANGED <<dirVars, swaps, now, readVars, lastActive>>

\* A pass that is not the last one keeps the partial file; the next pass opens it.
Keep ==
    /\ load.pc = "open"
    /\ load' = [load EXCEPT !.pc = "kept"]
    /\ UNCHANGED <<dirVars, swaps, now, readVars, lastActive>>

Resume ==
    /\ load.pc = "kept"
    /\ load' = [load EXCEPT !.pc = "open"]
    /\ UNCHANGED <<dirVars, swaps, now, readVars, lastActive>>

\* The last pass: size, sync, verify; then ACTIVE is read, for the clean-up.
Verify ==
    /\ load.pc = "open" /\ load.temp = "magic"
    /\ load' = [load EXCEPT !.pc = "verified", !.prev = active]
    /\ UNCHANGED <<dirVars, swaps, now, readVars, lastActive>>

Rename ==
    /\ load.pc = "verified"
    /\ files' = files \cup {load.sid}
    /\ load' = [load EXCEPT !.pc = "renamed", !.temp = "none"]
    /\ UNCHANGED <<active, strays, swaps, now, readVars, lastActive>>

\* mutant: ACTIVE is replaced before the file is renamed into place.
ActivateFirst ==
    /\ load.pc \in {"verified", "renamed"}
    /\ active' = load.sid
    /\ swaps' = swaps + 1
    /\ lastActive' = [lastActive EXCEPT ![load.sid] = now]
    /\ load' = [load EXCEPT !.pc = IF @ = "renamed" THEN "active" ELSE @]
    /\ UNCHANGED <<files, strays, now, readVars>>

\* ACTIVE by a temporary file and a rename.
Activate ==
    /\ load.pc = "renamed"
    /\ active' = load.sid
    /\ swaps' = swaps + 1
    /\ lastActive' = [lastActive EXCEPT ![load.sid] = now]
    /\ load' = [load EXCEPT !.pc = "active"]
    /\ UNCHANGED <<files, strays, now, readVars>>

\* The clean-up, one directory entry at a time: every snapshot file but the new and the previous one, and
\* every temporary file with the magic.
KeepsNewOnly == {load.sid}                               \* mutant: the previous file goes too
Kept == {load.sid, load.prev}

Sweep ==
    /\ load.pc = "active"
    /\ \/ \E s \in files \ Kept : files' = files \ {s} /\ UNCHANGED strays
       \/ "magic" \in strays /\ strays' = strays \ {"magic"} /\ UNCHANGED files
    /\ UNCHANGED <<active, load, swaps, now, readVars, lastActive>>

LoadEnds ==
    /\ load.pc = "active"
    /\ files \subseteq Kept /\ "magic" \notin strays
    /\ load' = NoLoad
    /\ UNCHANGED <<dirVars, swaps, now, readVars, lastActive>>

\* A bad piece, a full disk, a checksum that does not match: the writer removes its own temporary
\* file.  A kept partial file is not its own: it stays when the next pass never comes.
LoadFails ==
    /\ load.pc # "idle"
    /\ strays' = IF load.pc = "kept" THEN strays \cup {load.temp} ELSE strays
    /\ load' = NoLoad
    /\ UNCHANGED <<files, active, swaps, now, readVars, lastActive>>

\* The loading process dies.
LoadCrash ==
    /\ load.pc # "idle"
    /\ strays' = strays \cup ({load.temp} \ {"none"})
    /\ load' = NoLoad
    /\ UNCHANGED <<files, active, swaps, now, readVars, lastActive>>

------------------------------------------------------------------------------
(* open_active.                                                            *)

\* The clock is read before the lock is taken.
OpenStart(t, s) ==
    /\ open[t].pc = "idle"
    /\ open' = [open EXCEPT ![t] = [NoOpen EXCEPT !.pc = "start", !.start = now, !.atLeast = s]]
    /\ UNCHANGED <<dirVars, load, swaps, now, state, lock, lastActive>>

\* What ACTIVE said is trusted for a while, unless the query needs a newer snapshot.
FreshAnyAge(t) == state.sid # 0 /\ state.sid >= open[t].atLeast        \* mutant: it is trusted for ever
Fresh(t) ==
    /\ state.sid # 0
    /\ open[t].start < state.checked + Trust
    /\ state.sid >= open[t].atLeast

TrustState(t) ==
    /\ open[t].pc = "start" /\ lock = "free" /\ Fresh(t)
    /\ open' = [open EXCEPT ![t].pc = "done", ![t].id = state.sid]
    /\ UNCHANGED <<dirVars, load, swaps, now, state, lock, lastActive>>

\* The lock is kept while ACTIVE is read and the file is opened.
ReadActive(t) ==
    /\ open[t].pc = "start" /\ lock = "free" /\ ~Fresh(t)
    /\ IF active = 0
       THEN /\ open' = [open EXCEPT ![t].pc = "none"]
            /\ state' = NoState
            /\ UNCHANGED lock
       ELSE /\ open' = [open EXCEPT ![t].pc = "path", ![t].id = active, ![t].swaps = swaps]
            /\ lock' = t
            /\ UNCHANGED state
    /\ UNCHANGED <<dirVars, load, swaps, now, lastActive>>

\* mutant: the error path returns without unlocking.
OpenKeepsLock(t) ==
    /\ open[t].pc = "path"
    /\ \/ /\ open[t].id \in files
          /\ state' = [sid |-> open[t].id, checked |-> open[t].start]
          /\ open' = [open EXCEPT ![t].pc = "done"] /\ lock' = "free"
       \/ /\ open[t].id \notin files
          /\ state' = NoState /\ open' = [open EXCEPT ![t].pc = "missing"] /\ lock' = lock
    /\ UNCHANGED <<dirVars, load, swaps, now, lastActive>>

\* The file ACTIVE named; an error when it is gone.  checked is the time the call began.
OpenFile(t) ==
    /\ open[t].pc = "path"
    /\ lock' = "free"
    /\ \/ /\ open[t].id \in files
          /\ state' = [sid |-> open[t].id, checked |-> open[t].start]
          /\ open' = [open EXCEPT ![t].pc = "done"]
       \/ /\ open[t].id \notin files
          /\ state' = NoState
          /\ open' = [open EXCEPT ![t].pc = "missing"]
    /\ UNCHANGED <<dirVars, load, swaps, now, lastActive>>

OpenEnds(t) ==
    /\ open[t].pc \in {"done", "none", "missing"}
    /\ open' = [open EXCEPT ![t] = NoOpen]
    /\ UNCHANGED <<dirVars, load, swaps, now, state, lock, lastActive>>

\* The query process dies: its mappings and its threads go.
ProcessCrash ==
    /\ state # NoState \/ \E t \in Threads : open[t] # NoOpen
    /\ state' = NoState /\ lock' = "free"
    /\ open' = [t \in Threads |-> NoOpen]
    /\ UNCHANGED <<dirVars, load, swaps, now, lastActive>>

------------------------------------------------------------------------------
Next ==
    \/ Tick
    \/ \E s \in Sids, base \in 0..MaxSid : Begin(s, base)
    \/ WriteHeader \/ Keep \/ Resume \/ Verify \/ Rename \/ Activate
    \/ Sweep \/ LoadEnds \/ LoadFails \/ LoadCrash
    \/ \E t \in Threads :
          \/ \E s \in 0..MaxSid : OpenStart(t, s)
          \/ TrustState(t) \/ ReadActive(t) \/ OpenFile(t) \/ OpenEnds(t)
    \/ ProcessCrash

Spec == Init /\ [][Next]_vars

------------------------------------------------------------------------------
(* Properties.                                                             *)

\* Every variable stays in its type, and the lock is held by the thread that is opening the file.
TypeOK ==
    /\ files \subseteq Sids /\ active \in 0..MaxSid /\ strays \subseteq {"empty", "magic"}
    /\ load \in [pc : {"idle", "open", "kept", "verified", "renamed", "active"}, sid : 0..MaxSid,
                temp : {"none", "empty", "magic"}, prev : 0..MaxSid]
    /\ swaps \in Nat /\ now \in 0..MaxTime
    /\ state \in [sid : 0..MaxSid, checked : 0..MaxTime]
    /\ lock \in Threads \cup {"free"} /\ \A t \in Threads : lock = t <=> open[t].pc = "path"
    /\ open \in [Threads -> [pc : {"idle", "start", "path", "done", "none", "missing"}, start : 0..MaxTime,
                             atLeast : 0..MaxSid, id : 0..MaxSid, swaps : Nat]]
    /\ lastActive \in [Sids -> 0..MaxTime]

\* ACTIVE names a file that is there, after every step of a load and after a crash at any of them.
ActiveResolves == active # 0 => active \in files

\* A query that has read ACTIVE finds the file although a load may replace ACTIVE before it opens it: the
\* file is then the previous one, which stays until the next load.
OneLoadOfGrace ==
    \A t \in Threads : open[t].pc = "missing" => swaps >= open[t].swaps + 2

\* A query is never given a snapshot that stopped being the active one more than ACTIVE_CHECK_MS before the
\* query began, however long it waited for the lock behind a thread that opened the file.
NoticedInTime ==
    \A t \in Threads : open[t].pc = "done" => open[t].start < lastActive[open[t].id] + Trust
==============================================================================
