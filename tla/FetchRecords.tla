----------------------------- MODULE FetchRecords -----------------------------
(* The record of one fetched ref, which the daemons of all herdr servers share *)
(* without a lock: it throttles the fetches and tells since when they fail.    *)
EXTENDS Naturals

CONSTANTS Servers,     \* herdr servers, with one daemon each
          Throttle,    \* ticks between two unforced fetches
          StaleAfter,  \* ticks of failure after which the label `stale` appears
          MaxTime      \* the last tick looked at

ASSUME TimingAssumption ==
    /\ Throttle \in Nat \ {0}
    /\ StaleAfter \in Nat \ {0}
    /\ MaxTime \in Nat \ {0}

VARIABLES
    now,      \* the clock; it starts at 1, and 0 means never
    record,   \* what is in the file
    doing,    \* doing[d]: where the daemon of d is with this ref
    loaded,   \* loaded[d]: the record d works on
    base,     \* ghost: base[d]: what d believes to be in the file
    tried,    \* ghost: when the latest attempt on record began
    reached,  \* ghost: when the latest success on record was recorded
    lost      \* ghost: a save undid another daemon's; until a clean success

memory == <<doing, loaded, base>>
recordVars == <<now, record, memory, tried, reached, lost>>

Times == 0..MaxTime

(* `error`: LastError empty, an error that may pass, or one that will not.     *)
Records == [attempt : Times, failing : Times, error : {"none", "passing", "permanent"}]

Consistent(r) == r.error = "none" <=> r.failing = 0

Empty == [attempt |-> 0, failing |-> 0, error |-> "none"]

DueAt(r) == r.attempt = 0 \/ now - r.attempt >= Throttle

(* A bug: the beginning of the failures stays.                                 *)
MarkSuccessKeepingSince(r) == [r EXCEPT !.error = "none"]

MarkSuccess(r) == [r EXCEPT !.error = "none", !.failing = 0]

MarkFailure(r, kind) ==
    [r EXCEPT !.error = kind, !.failing = IF r.failing = 0 THEN now ELSE @]

Stale(r) == r.error = "passing" /\ r.failing # 0 /\ now - r.failing >= StaleAfter

RecordsInit ==
    /\ now = 1
    /\ record = Empty
    /\ doing = [d \in Servers |-> "idle"]
    /\ loaded = [d \in Servers |-> Empty]
    /\ base = [d \in Servers |-> Empty]
    /\ tried = 0
    /\ reached = 0
    /\ lost = FALSE

GoTo(d, step) == doing' = [doing EXCEPT ![d] = step]

(* fetchAll: the record is read, or taken for empty when it cannot be; an      *)
(* unforced fetch has to be due.  Then it may wait for one of the four slots.  *)
Load(d) ==
    /\ doing[d] = "idle"
    /\ \E r \in {record, Empty}, step \in {"due", "forced"} :
         /\ step = "due" => DueAt(r)
         /\ loaded' = [loaded EXCEPT ![d] = r]
         /\ base' = [base EXCEPT ![d] = r]
         /\ GoTo(d, step)
    /\ UNCHANGED <<now, record, tried, reached, lost>>

(* SaveRecord replaces the file, or fails and leaves it.                       *)
Save(d, r) ==
    /\ record' = r
    /\ base' = [base EXCEPT ![d] = r]

(* d is done with the ref, and what it knew of it is gone.                     *)
Leave(d) ==
    /\ GoTo(d, "idle")
    /\ loaded' = [loaded EXCEPT ![d] = Empty]
    /\ base' = [base EXCEPT ![d] = Empty]

Later(attempt) == IF attempt > tried THEN attempt ELSE tried

(* A bug: the attempt is recorded with its result only.                        *)
BeginFetchUnrecorded(d) ==
    /\ doing[d] \in {"due", "forced"}
    /\ loaded' = [loaded EXCEPT ![d].attempt = now]
    /\ tried' = now
    /\ GoTo(d, "fetching")
    /\ UNCHANGED <<now, record, base, reached, lost>>

(* fetchOne records the attempt before it goes to the network.                 *)
BeginFetch(d) ==
    /\ doing[d] \in {"due", "forced"}
    /\ loaded' = [loaded EXCEPT ![d].attempt = now]
    /\ \/ /\ Save(d, [loaded[d] EXCEPT !.attempt = now])
          /\ tried' = now
          /\ lost' = (lost \/ record # base[d])
       \/ UNCHANGED <<record, base, tried, lost>>
    /\ GoTo(d, "fetching")
    /\ UNCHANGED <<now, reached>>

(* The fetch ended well.                                                       *)
RecordSuccess(d) ==
    /\ doing[d] = "fetching"
    /\ \/ /\ record' = MarkSuccess(loaded[d])
          /\ tried' = Later(loaded[d].attempt)
          /\ reached' = now
          /\ lost' = (record # base[d] \/ loaded[d].attempt < tried)
       \/ UNCHANGED <<record, tried, reached, lost>>
    /\ Leave(d)
    /\ UNCHANGED now

(* The fetch failed, timed out or was cancelled with the daemon; or the remote *)
(* has no such branch.                                                         *)
RecordFailure(d) ==
    /\ doing[d] = "fetching"
    /\ \/ /\ \E kind \in {"passing", "permanent"} : record' = MarkFailure(loaded[d], kind)
          /\ tried' = Later(loaded[d].attempt)
          /\ lost' = (lost \/ record # base[d])
       \/ UNCHANGED <<record, tried, lost>>
    /\ Leave(d)
    /\ UNCHANGED <<now, reached>>

(* The daemon is killed; its successor begins with the file alone.             *)
Crash(d) ==
    /\ doing[d] # "idle"
    /\ Leave(d)
    /\ UNCHANGED <<now, record, tried, reached, lost>>

Tick ==
    /\ now < MaxTime
    /\ now' = now + 1
    /\ UNCHANGED <<record, memory, tried, reached, lost>>

RecordsNext ==
    \/ \E d \in Servers : \/ Load(d) \/ BeginFetch(d) \/ RecordSuccess(d)
                          \/ RecordFailure(d) \/ Crash(d)
    \/ Tick

RecordsSpec == RecordsInit /\ [][RecordsNext]_recordVars

-------------------------------------------------------------------------------
(* Every variable has its type, and a record names an error if and only if it  *)
(* knows since when.                                                           *)
RecordsTypeOK ==
    /\ now \in Times
    /\ record \in Records
    /\ doing \in [Servers -> {"idle", "due", "forced", "fetching"}]
    /\ loaded \in [Servers -> Records]
    /\ base \in [Servers -> Records]
    /\ tried \in Times
    /\ reached \in Times
    /\ lost \in BOOLEAN
    /\ Consistent(record)
    /\ \A d \in Servers : Consistent(loaded[d])

(* The label `stale` appears only when no success was recorded for StaleAfter  *)
(* ticks, as long as no daemon has written over another's record since; a      *)
(* crash at any point, forced fetches and failing saves change nothing in it.  *)
StaleIsEarned == ~lost /\ Stale(record) => now - reached >= StaleAfter

(* No unforced fetch is decided on less than Throttle ticks after the latest   *)
(* attempt on record, whoever made it and even if it never ended; again unless *)
(* a daemon has written over that attempt, or cannot read the record.          *)
ThrottleKept ==
    [][\A d \in Servers :
         doing[d] = "idle" /\ doing'[d] = "due" /\ loaded'[d] = record /\ ~lost
           => tried = 0 \/ now - tried >= Throttle]_recordVars
===============================================================================
