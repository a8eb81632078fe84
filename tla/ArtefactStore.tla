---------------------------- MODULE ArtefactStore ----------------------------
(***************************************************************************)
(* Archived bytes and the rows about them.  The store is a directory of    *)
(* files named by their digest, outside any transaction; the rows say what *)
(* is archived, what cites it and what was erased.  Runs archive, licences *)
(* demand erasure, a sweep collects what nothing cites, disks rot, and a   *)
(* backup is dump and copy, one after the other.                           *)
(***************************************************************************)
EXTENDS Naturals, FiniteSets

CONSTANTS
  Digests,
  Archivers,       \* runs that archive documents
  CollectsAlone,   \* is the sweep kept away from runs that archive?
  MaxRot,          \* bound: files that rot
  MaxDeaths        \* bound: processes lost between two steps

ASSUME StoreAssumption ==
  /\ CollectsAlone \in BOOLEAN
  /\ {MaxRot, MaxDeaths} \subseteq Nat

VARIABLES
  file,       \* file[d]: "absent", "intact" or "rotten"
  artefacts,  \* digests with a row
  documents,  \* source documents: which digest, under which retention class
  purges,     \* digests with a purge row
  archiver,   \* archiver[a]: where it is, and with what
  keeper,     \* the command that erases: where it is, what is left to it
  dump,       \* the database dump of the backup being taken, or taken
  copy,       \* copy[d]: the backup's file of d, "uncopied" until it is reached
  torn,       \* something was being erased while the backup was taken
  rots,       \* files that have rotted (bounded)
  deaths      \* processes lost (bounded)

storeVars == <<file, artefacts, documents, purges, archiver, keeper, dump, copy, torn,
               rots, deaths>>
rows      == <<artefacts, documents, purges>>
backup    == <<dump, copy, torn>>
bounds    == <<rots, deaths>>

Retention == {"licensed", "permanent"}
Document  == [of : Digests, class : Retention]
Files     == {"absent", "intact", "rotten"}
NotTaken  == {}
AtRest    == [at |-> "rest", on |-> {}]
Unused    == [at |-> "rest", on |-> {}, left |-> {}]

StoreTypeOK ==
  /\ file \in [Digests -> Files]
  /\ artefacts \subseteq Digests
  /\ documents \subseteq Document
  /\ purges \subseteq Digests
  /\ archiver \in [Archivers ->
       [at : {"rest", "stored", "found", "inserted"}, on : SUBSET Document]]
  /\ keeper \in [at : {"rest", "purging", "emptied", "collecting"},
                  on : SUBSET Digests, left : SUBSET Digests]
  /\ dump \in SUBSET [artefacts : SUBSET Digests, documents : SUBSET Document,
                      purges : SUBSET Digests]
  /\ copy \in [Digests -> Files \cup {"uncopied"}]
  /\ torn \in BOOLEAN
  /\ rots \in Nat
  /\ deaths \in Nat

StoreInit ==
  /\ file = [d \in Digests |-> "absent"]
  /\ artefacts = {}
  /\ documents = {}
  /\ purges = {}
  /\ archiver = [a \in Archivers |-> AtRest]
  /\ keeper = Unused
  /\ dump = NotTaken
  /\ copy = [d \in Digests |-> "uncopied"]
  /\ torn = FALSE
  /\ rots = 0
  /\ deaths = 0

-----------------------------------------------------------------------------
(* Archiving: the bytes first (a file already there is left alone), then   *)
(* the row and the document that cites it, committed together.             *)
Put(a, doc) ==
  /\ archiver[a] = AtRest
  /\ CollectsAlone => keeper.at # "collecting"
  /\ file' = [file EXCEPT ![doc.of] = IF @ = "absent" THEN "intact" ELSE @]
  /\ archiver' = [archiver EXCEPT ![a] = [at |-> "stored", on |-> {doc}]]
  /\ UNCHANGED <<rows, keeper, backup, bounds>>

InStore(d) == file[d] # "absent"

(* record_fetched_artefact: the bytes must be there; the row is found or   *)
(* inserted.  A row that was found is locked by the reference to it.       *)
RecordFetched(a) == \E doc \in archiver[a].on :
  /\ archiver[a].at = "stored"
  /\ archiver' = [archiver EXCEPT ![a] =
       IF InStore(doc.of)
       THEN [at |-> IF doc.of \in artefacts THEN "found" ELSE "inserted", on |-> {doc}]
       ELSE AtRest]
  /\ UNCHANGED <<file, rows, keeper, backup, bounds>>

CommitDocument(a) == \E doc \in archiver[a].on :
  /\ archiver[a].at \in {"found", "inserted"}
  /\ archiver' = [archiver EXCEPT ![a] = AtRest]
  /\ \/ /\ archiver[a].at = "inserted" \/ doc.of \in artefacts
        /\ artefacts' = artefacts \cup {doc.of}
        /\ documents' = documents \cup {doc}
     \/ /\ archiver[a].at = "found" /\ doc.of \notin artefacts
        /\ UNCHANGED <<artefacts, documents>>
  /\ UNCHANGED <<file, purges, keeper, backup, bounds>>

LoseArchiver(a) ==
  /\ archiver[a] # AtRest
  /\ deaths < MaxDeaths
  /\ deaths' = deaths + 1
  /\ archiver' = [archiver EXCEPT ![a] = AtRest]
  /\ UNCHANGED <<file, rows, keeper, backup, rots>>

(* A request is purged: its documents go, the artefacts stay.              *)
DropDocument(doc) ==
  /\ documents' = documents \ {doc}
  /\ UNCHANGED <<file, artefacts, purges, archiver, keeper, backup, bounds>>

-----------------------------------------------------------------------------
Complete == dump # NotTaken /\ \A d \in Digests : copy[d] # "uncopied"
Copying  == dump # NotTaken /\ ~Complete

(* purge_artefact: any licensed document obliges, whatever else cites the  *)
(* same bytes; the store is emptied before the record is committed.        *)
Owed(d) == \E doc \in documents : doc.of = d /\ doc.class = "licensed"

MayPurge(d) == d \in artefacts \ purges /\ Owed(d)

BeginPurge(d) ==
  /\ keeper = Unused
  /\ MayPurge(d)
  /\ keeper' = [at |-> "purging", on |-> {d}, left |-> {}]
  /\ UNCHANGED <<file, rows, archiver, backup, bounds>>

EmptyStore == \E d \in keeper.on :
  /\ keeper.at = "purging"
  /\ file' = [file EXCEPT ![d] = "absent"]
  /\ keeper' = [keeper EXCEPT !.at = "emptied"]
  /\ torn' = (torn \/ Copying)
  /\ UNCHANGED <<rows, archiver, dump, copy, bounds>>

CommitPurge ==
  /\ keeper.at = "emptied"
  /\ purges' = purges \cup keeper.on
  /\ keeper' = Unused
  /\ UNCHANGED <<file, artefacts, documents, archiver, backup, bounds>>

(* collect_garbage: what nothing refers to is listed, its bytes deleted    *)
(* one by one, and its rows in one transaction, which fails as a whole     *)
(* when something refers to one of them by then, and waits for a run that  *)
(* is about to.                                                            *)
Referenced == {doc.of : doc \in documents} \cup purges

(* Mutant: one kind of reference is left out of the union. *)
OrphansButLicensed ==
  artefacts \ (purges \cup {doc.of : doc \in {c \in documents : c.class = "licensed"}})

Orphans == artefacts \ Referenced

BeginCollection ==
  /\ keeper = Unused
  /\ Orphans # {}
  /\ CollectsAlone => \A a \in Archivers : archiver[a] = AtRest
  /\ keeper' = [at |-> "collecting", on |-> Orphans, left |-> Orphans]
  /\ UNCHANGED <<file, rows, archiver, backup, bounds>>

CollectBytes(d) ==
  /\ keeper.at = "collecting"
  /\ d \in keeper.left
  /\ file' = [file EXCEPT ![d] = "absent"]
  /\ keeper' = [keeper EXCEPT !.left = @ \ {d}]
  /\ torn' = (torn \/ Copying)
  /\ UNCHANGED <<rows, archiver, dump, copy, bounds>>

HeldByARun(d) == \E a \in Archivers : archiver[a].at = "found" /\ \E doc \in archiver[a].on : doc.of = d

CommitCollection ==
  /\ keeper.at = "collecting"
  /\ keeper.left = {}
  /\ \A d \in keeper.on : ~HeldByARun(d)
  /\ artefacts' = IF keeper.on \cap Referenced = {} THEN artefacts \ keeper.on ELSE artefacts
  /\ keeper' = Unused
  /\ UNCHANGED <<file, documents, purges, archiver, backup, bounds>>

LoseKeeper ==
  /\ keeper # Unused
  /\ deaths < MaxDeaths
  /\ deaths' = deaths + 1
  /\ keeper' = Unused
  /\ UNCHANGED <<file, rows, archiver, backup, rots>>

Rot(d) ==
  /\ file[d] = "intact"
  /\ rots < MaxRot
  /\ rots' = rots + 1
  /\ file' = [file EXCEPT ![d] = "rotten"]
  /\ UNCHANGED <<rows, archiver, keeper, backup, deaths>>

-----------------------------------------------------------------------------
(* create_backup: the database is dumped, then the files are copied one    *)
(* after the other.  restore_backup: the copy must verify; the database is *)
(* replaced, and files are copied in where there is none.                  *)
Dumped == [artefacts |-> artefacts, documents |-> documents, purges |-> purges]

DumpDatabase ==
  /\ dump = NotTaken
  /\ dump' = {Dumped}
  /\ torn' = (keeper # Unused)
  /\ UNCHANGED <<file, rows, archiver, keeper, copy, bounds>>

CopyFile(d) ==
  /\ dump # NotTaken
  /\ copy[d] = "uncopied"
  /\ copy' = [copy EXCEPT ![d] = file[d]]
  /\ UNCHANGED <<file, rows, archiver, keeper, dump, torn, bounds>>

Verifies == \A d \in Digests : copy[d] # "rotten"

RestoredFile(d) == IF file[d] = "absent" THEN copy[d] ELSE file[d]

Restore == \E saved \in dump :
  /\ Complete
  /\ Verifies
  /\ keeper = Unused
  /\ \A a \in Archivers : archiver[a] = AtRest
  /\ file' = [d \in Digests |-> RestoredFile(d)]
  /\ artefacts' = saved.artefacts
  /\ documents' = saved.documents
  /\ purges' = saved.purges
  /\ UNCHANGED <<archiver, keeper, backup, bounds>>

StoreNext ==
  \/ \E a \in Archivers :
       \/ \E doc \in Document : Put(a, doc)
       \/ RecordFetched(a) \/ CommitDocument(a) \/ LoseArchiver(a)
  \/ \E doc \in documents : DropDocument(doc)
  \/ \E d \in Digests : BeginPurge(d) \/ CollectBytes(d) \/ Rot(d) \/ CopyFile(d)
  \/ EmptyStore \/ CommitPurge \/ BeginCollection \/ CommitCollection \/ LoseKeeper
  \/ DumpDatabase \/ Restore

StoreSpec == StoreInit /\ [][StoreNext]_storeVars

-----------------------------------------------------------------------------
(* Evidence a document cites is in the store, or its erasure is on record  *)
(* (or about to be): whatever archives, purges, is swept, dumped and       *)
(* restored in between.  It takes a sweep that is kept away from the runs, *)
(* a keeper that does not die between erasing and recording, and no        *)
(* erasure while a backup is being taken.                                  *)
Erased(d) == d \in purges \/ (keeper.at = "emptied" /\ d \in keeper.on)

CitedBytesAreKept == CollectsAlone /\ deaths = 0 /\ ~torn =>
  \A doc \in documents : file[doc.of] = "absent" => Erased(doc.of)

(* A restored backup gives back what its database cites: "there is still a *)
(* backup to restore from".                                                *)
RestoreHeals == [][
  Restore /\ ~torn => \A doc \in documents' :
    file'[doc.of] = "intact" \/ doc.of \in purges']_storeVars
=============================================================================
