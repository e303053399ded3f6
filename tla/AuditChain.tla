------------------------------ MODULE AuditChain ------------------------------
(***************************************************************************)
(* The hash chain of audit events: one list per process, appended to by    *)
(* every handler through Store.append_audit, which then inserts a row into *)
(* the audit table.  Handlers run in several threads and nothing locks the *)
(* list: the index, the previous hash and the append are separate steps.   *)
(*                                                                         *)
(* SHA-256 is taken as injective: the hash of a link is the sequence of    *)
(* the events it stands on, its own the last; genesis is the empty one.    *)
(***************************************************************************)
EXTENDS Naturals, Sequences

CONSTANTS
  Thread,
  MaxEvents,           \* bound: audit events
  MaxProcesses         \* bound: restarts of the process

ASSUME AuditAssumption == MaxEvents \in Nat /\ MaxProcesses \in Nat

VARIABLES
  links,       \* the list of the process
  rows,        \* the audit table, which outlives the process
  at,          \* where each thread stands in append_audit
  event, index, prev,    \* and what it holds there
  events,      \* events appended so far
  process,     \* incarnation of the process
  raced        \* history: two appends of this process have overlapped

auditVars == <<links, rows, at, event, index, prev, events, process, raced>>

Genesis == <<>>

(* Mutant: the hash leaves the previous hash out.                          *)
LinkHashAlone(p, e) == <<e>>

LinkHash(p, e) == Append(p, e)

LastHash == IF links = <<>> THEN Genesis ELSE links[Len(links)].hash

AuditInit ==
  /\ links = <<>> /\ rows = {}
  /\ at = [t \in Thread |-> "idle"]
  /\ event = [t \in Thread |-> 0] /\ index = event
  /\ prev = [t \in Thread |-> Genesis]
  /\ events = 0 /\ process = 0 /\ raced = FALSE

-----------------------------------------------------------------------------
Steps(t, from, to) == at[t] = from /\ at' = [at EXCEPT ![t] = to]

(* Mutant: the index of the last link is taken.                            *)
NextIndexLast == IF links = <<>> THEN 0 ELSE Len(links) - 1

NextIndex == Len(links)

ReadsIndex(t) ==
  /\ events < MaxEvents
  /\ Steps(t, "idle", "indexed")
  /\ events' = events + 1
  /\ event' = [event EXCEPT ![t] = events']
  /\ index' = [index EXCEPT ![t] = NextIndex]
  /\ raced' = (raced \/ \E u \in Thread : at[u] \in {"indexed", "hashed"})
  /\ UNCHANGED <<links, rows, prev, process>>

ReadsPrevious(t) ==
  /\ Steps(t, "indexed", "hashed")
  /\ prev' = [prev EXCEPT ![t] = LastHash]
  /\ UNCHANGED <<links, rows, event, index, events, process, raced>>

AppendsLink(t) ==
  /\ Steps(t, "hashed", "linked")
  /\ links' = Append(links, [index |-> index[t], event |-> event[t],
                             hash |-> LinkHash(prev[t], event[t]), prev |-> prev[t]])
  /\ UNCHANGED <<rows, event, index, prev, events, process, raced>>

InsertsRow(t) ==
  /\ Steps(t, "linked", "idle")
  /\ rows' = rows \cup {[event |-> event[t], hash |-> LinkHash(prev[t], event[t]),
                         prev |-> prev[t], index |-> index[t], process |-> process]}
  /\ UNCHANGED <<links, event, index, prev, events, process, raced>>

(* The database stays locked past its timeout: the handler raises, and the *)
(* link stays in the list.                                                 *)
InsertFails(t) ==
  /\ Steps(t, "linked", "idle")
  /\ UNCHANGED <<links, rows, event, index, prev, events, process, raced>>

AuditRestart ==
  /\ process < MaxProcesses
  /\ process' = process + 1
  /\ links' = <<>>
  /\ at' = [t \in Thread |-> "idle"]
  /\ raced' = FALSE
  /\ UNCHANGED <<rows, event, index, prev, events>>

AuditNext ==
  \/ \E t \in Thread : \/ ReadsIndex(t)
                       \/ ReadsPrevious(t)
                       \/ AppendsLink(t)
                       \/ InsertsRow(t)
                       \/ InsertFails(t)
  \/ AuditRestart

AuditSpec == AuditInit /\ [][AuditNext]_auditVars

-----------------------------------------------------------------------------
(* AuditChain.verify: the links of the process, whatever the table holds.  *)
Verified ==
  \A i \in DOMAIN links :
    /\ links[i].prev = IF i > 1 THEN links[i - 1].hash ELSE Genesis
    /\ links[i].hash = LinkHash(links[i].prev, links[i].event)

AuditTypeOK ==
  /\ \A i \in DOMAIN links :
       /\ links[i].index \in Nat /\ links[i].event \in 1 .. MaxEvents
       /\ links[i].hash \in Seq(1 .. MaxEvents) /\ links[i].prev \in Seq(1 .. MaxEvents)
  /\ at \in [Thread -> {"idle", "indexed", "hashed", "linked"}]
  /\ events \in 0 .. MaxEvents /\ process \in 0 .. MaxProcesses

(* While no two appends of the process have overlapped, the chain is whole *)
(* whatever else failed: it verifies, a link's index is its position, and  *)
(* a row of this process is the link at its index (audit_chain.py:43-56,   *)
(* store.py:229-242).                                                      *)
SoundUnlessRaced ==
  ~raced =>
    /\ Verified
    /\ \A i \in DOMAIN links : links[i].index = i - 1
    /\ \A w \in rows : w.process = process =>
         /\ w.index + 1 \in DOMAIN links
         /\ links[w.index + 1].hash = w.hash

(* A verdict of "valid" pins every event and its order: the last hash      *)
(* stands for the whole list, so no two links share a predecessor, not     *)
(* even after appends have overlapped (audit_chain.py:58-70).              *)
VerdictPinsHistory ==
  Verified /\ links # <<>> => LastHash = [i \in DOMAIN links |-> links[i].event]
=============================================================================
