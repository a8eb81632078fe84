----------------------------- MODULE AuditTrail -----------------------------
(***************************************************************************)
(* The audit log.  A transaction chains each event it records to the       *)
(* newest row it can see; a verifier walks the rows in id order, page by   *)
(* page, while more are written.  A hash stands for what it digests: the   *)
(* payloads of the chain up to its row (genesis is the empty sequence),    *)
(* and nothing else of the row.                                            *)
(***************************************************************************)
EXTENDS Integers, Sequences, FiniteSets

CONSTANTS
  Writers,     \* sessions that record events: web requests, workers, commands
  Payloads,    \* what an event says
  Actors,      \* what stands beside it, undigested: actor, type, job, subject
  PageSize,    \* rows the verifier reads at once
  MaxEvents,   \* bound: ids given out
  MaxHarm      \* bound: rows harmed

ASSUME AuditAssumption ==
  /\ PageSize \in Nat \ {0}
  /\ MaxEvents \in Nat
  /\ MaxHarm \in Nat

VARIABLES
  log,       \* the committed rows
  drafts,    \* drafts[w]: rows w has flushed and not committed
  nextId,    \* the id sequence
  edited,    \* rows edited in place, as they were written
  deleted,   \* rows deleted, as they were written
  walk,      \* the verifier: not walking, walking, or its verdict
  lastId,    \* the last row it has read, or stopped at
  anchor,    \* the last hash it has read
  disturbed, \* rows were harmed since the walk began
  missed     \* rows committed behind the walk

auditVars == <<log, drafts, nextId, edited, deleted, walk, lastId, anchor,
               disturbed, missed>>
harm      == <<edited, deleted>>
reader    == <<walk, lastId, anchor, disturbed, missed>>

Genesis == <<>>
Hash(prev, payload) == Append(prev, payload)
Events == [id : Nat, prev : Seq(Payloads), payload : Payloads, actor : Actors,
           hash : Seq(Payloads)]

Verdicts == {"sound", "rooted", "edited", "unlinked"}

AuditTypeOK ==
  /\ log \subseteq Events
  /\ drafts \in [Writers -> SUBSET Events]
  /\ nextId \in Nat
  /\ edited \subseteq Events
  /\ deleted \subseteq Events
  /\ walk \in {"none", "walking"} \cup Verdicts
  /\ lastId \in Nat
  /\ anchor \in Seq(Payloads)
  /\ disturbed \in BOOLEAN
  /\ missed \subseteq Events

AuditInit ==
  /\ log = {}
  /\ drafts = [w \in Writers |-> {}]
  /\ nextId = 1
  /\ edited = {}
  /\ deleted = {}
  /\ walk = "none"
  /\ lastId = 0
  /\ anchor = Genesis
  /\ disturbed = FALSE
  /\ missed = {}

-----------------------------------------------------------------------------
IsNewest(e, rows) == e \in rows /\ \A f \in rows : f.id <= e.id

Seen(w) == log \cup drafts[w]

(* _record: read the newest row, insert the next.  No lock is held, and    *)
(* what other sessions have flushed is not seen.                           *)
Record(w, payload, actor) ==
  LET prev == IF Seen(w) = {} THEN Genesis
              ELSE (CHOOSE e \in Seen(w) : IsNewest(e, Seen(w))).hash
  IN /\ nextId <= MaxEvents
     /\ drafts' = [drafts EXCEPT ![w] = @ \cup
          {[id |-> nextId, prev |-> prev, payload |-> payload, actor |-> actor,
            hash |-> Hash(prev, payload)]}]
     /\ nextId' = nextId + 1
     /\ UNCHANGED <<log, harm, reader>>

CommitEvents(w) ==
  /\ drafts[w] # {}
  /\ log' = log \cup drafts[w]
  /\ drafts' = [drafts EXCEPT ![w] = {}]
  /\ missed' = IF walk = "walking" THEN missed \cup {e \in drafts[w] : e.id <= lastId}
                                   ELSE missed
  /\ UNCHANGED <<nextId, harm, walk, lastId, anchor, disturbed>>

RollBackEvents(w) ==
  /\ drafts[w] # {}
  /\ drafts' = [drafts EXCEPT ![w] = {}]
  /\ UNCHANGED <<log, nextId, harm, reader>>

(* What the log is there to show: a row edited or deleted in place, by     *)
(* hand or by a bug, as often as it may be.                                *)
Written(e) ==
  LET was == {o \in edited : o.id = e.id} IN IF was = {} THEN {e} ELSE was

Harm(e) == \E o \in Written(e) :
  /\ Cardinality(edited \cup deleted \cup {o}) <= MaxHarm
  /\ \/ /\ log' = log \ {e}
        /\ deleted' = deleted \cup {o}
        /\ UNCHANGED edited
     \/ /\ \/ \E p \in Payloads \ {e.payload} :
                log' = (log \ {e}) \cup {[e EXCEPT !.payload = p]}
           \/ \E a \in Actors \ {e.actor} :
                log' = (log \ {e}) \cup {[e EXCEPT !.actor = a]}
        /\ edited' = edited \cup {o}
        /\ UNCHANGED deleted
  /\ disturbed' = TRUE
  /\ UNCHANGED <<drafts, nextId, walk, lastId, anchor, missed>>

-----------------------------------------------------------------------------
(* verify_audit_chain.                                                     *)
Unread == {e \in log : e.id > lastId}

Page == {e \in Unread : Cardinality({f \in Unread : f.id < e.id}) < PageSize}

Below(e) == {f \in Page : f.id < e.id}

(* Mutant: the first row of a page is not compared with the last one read. *)
ExpectedInPage(e) ==
  IF Below(e) = {} THEN e.prev ELSE (CHOOSE f \in Below(e) : IsNewest(f, Below(e))).hash

(* What e should link to: the row before it in the page, or the anchor.    *)
Expected(e) ==
  IF Below(e) = {} THEN anchor ELSE (CHOOSE f \in Below(e) : IsNewest(f, Below(e))).hash

Broken(e) == e.prev # Expected(e) \/ e.hash # Hash(e.prev, e.payload)

(* Mutant: the link is explained by the anchor of the page. *)
VerdictByAnchor(e) == IF e.prev = anchor THEN "edited" ELSE "unlinked"

First(e) == lastId = 0 /\ Below(e) = {}

(* _why; the first row of the log has a verdict of its own.                *)
Verdict(e) ==
  CASE e.prev = Expected(e)              -> "edited"
    [] e.prev # Expected(e) /\ First(e)  -> "rooted"
    [] e.prev # Expected(e) /\ ~First(e) -> "unlinked"

BeginWalk ==
  /\ walk # "walking"
  /\ walk' = "walking"
  /\ lastId' = 0
  /\ anchor' = Genesis
  /\ disturbed' = FALSE
  /\ missed' = {}
  /\ UNCHANGED <<log, drafts, nextId, harm>>

ReadPage ==
  /\ walk = "walking"
  /\ Page # {}
  /\ \A e \in Page : ~Broken(e)
  /\ \E e \in Page : IsNewest(e, Page) /\ lastId' = e.id /\ anchor' = e.hash
  /\ UNCHANGED <<log, drafts, nextId, harm, walk, disturbed, missed>>

FindBreak ==
  /\ walk = "walking"
  /\ \E e \in Page :
       /\ Broken(e)
       /\ \A f \in Below(e) : ~Broken(f)
       /\ walk' = Verdict(e)
       /\ lastId' = e.id
  /\ UNCHANGED <<log, drafts, nextId, harm, anchor, disturbed, missed>>

EndWalk ==
  /\ walk = "walking"
  /\ Unread = {}
  /\ walk' = "sound"
  /\ UNCHANGED <<log, drafts, nextId, harm, lastId, anchor, disturbed, missed>>

Verify == BeginWalk \/ ReadPage \/ FindBreak \/ EndWalk

AuditNext ==
  \/ \E w \in Writers :
       CommitEvents(w) \/ RollBackEvents(w) \/ \E p \in Payloads, a \in Actors : Record(w, p, a)
  \/ \E e \in log : Harm(e)
  \/ Verify

AuditSpec == AuditInit /\ [][AuditNext]_auditVars

-----------------------------------------------------------------------------
(* A walk that ends well, with no row harmed since it began, means that    *)
(* every row's payload is the one it was written with, even if it was      *)
(* edited and edited back, and that no row the walk could read is left     *)
(* linked to a deleted one: however many sessions write at once, only rows *)
(* committed behind the walk escape it.                                    *)
NoHarmGoesUnseen == [][
  walk = "walking" /\ walk' = "sound" /\ ~disturbed =>
    /\ \A o \in edited, e \in log : e.id = o.id => e.payload = o.payload
    /\ \A d \in deleted, e \in log \ missed :
         e.prev = d.hash => \E f \in log : f.id < e.id /\ f.hash = d.hash]_auditVars

(* The promise of audit_verify.py:10-12: a row edited in place is caught.  *)
(* Who acted, of what type and on what lies outside the digest, and an     *)
(* edit of it is not.                                                      *)
EveryEditIsSeen == [][
  walk = "walking" /\ walk' = "sound" /\ ~disturbed =>
    \A o \in edited, e \in log : e.id = o.id => e = o]_auditVars

(* Two rows that were linked to the same one, by sessions neither of which *)
(* saw the other's.                                                        *)
Forked(upTo) == \E e, f \in log \cup deleted :
  e.id < f.id /\ f.id <= upTo /\ e.prev = f.prev

(* The verdict names what is wrong, however the pages fall between the     *)
(* commits of however many sessions and whatever was rolled back: an       *)
(* edited row itself, a row after a deleted one, or, where the link is     *)
(* wrong, a fork that sessions writing at once have left.                  *)
TheVerdictIsRight ==
  /\ walk = "edited" => \E e \in edited : e.id = lastId
  /\ walk = "rooted" => \E d \in deleted : d.id < lastId
  /\ walk = "unlinked" => (\E d \in deleted : d.id < lastId) \/ Forked(lastId)

(* The words of the verdict (audit_verify.py:126-136): a record was edited *)
(* after it was written, or inserted, removed or reordered.  Two sessions  *)
(* that record at once leave a log of which it says so, and nobody harmed. *)
NoFalseAlarm == edited \cup deleted = {} => walk \notin {"rooted", "edited", "unlinked"}
=============================================================================
