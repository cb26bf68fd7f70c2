---------------------------- MODULE ArtifactStore ----------------------------
(***************************************************************************)
(* FilesystemArtifactStore: files named by the digest of their content.    *)
(* The steps of put(), the check of verify(), and what other programs may  *)
(* do to the directory.  TaskExecution says who performs them and when.    *)
(***************************************************************************)
EXTENDS Naturals, FiniteSets

CONSTANTS
  Digests,  \* the contents a capability may store, each named by its digest
  Forged    \* a reference whose URI does not name its digest

ASSUME ForgedAssumption == Forged \notin Digests

VARIABLES
  files,        \* the file under each digest
  temporaries,  \* whose temporary upload files exist
  tampered      \* bounds the damage by other programs: the digests they have touched

storeVars == <<files, temporaries, tampered>>

References == Digests \cup {Forged}

StoreTypeOK ==
  /\ files \in [Digests -> {"absent", "whole", "damaged"}]
  /\ tampered \subseteq Digests

StoreInit ==
  /\ files = [d \in Digests |-> "absent"]
  /\ temporaries = {}
  /\ tampered = {}

Exists(d) == files[d] # "absent"

\* verify(): the URI names the digest, the file exists and its content has it.
Verifies(ref) == ref \in Digests /\ files[ref] = "whole"

\* The chunks go to a temporary file with a name of its own.
OpenTemporary(u) ==
  /\ temporaries' = temporaries \cup {u}
  /\ UNCHANGED <<files, tampered>>

\* temporary.replace(destination): atomic, also over a file that has appeared.
ReplaceDestination(u, d) ==
  /\ files' = [files EXCEPT ![d] = "whole"]
  /\ temporaries' = temporaries \ {u}
  /\ UNCHANGED tampered

\* Faulty: an upload that failed stays where it is.
RemoveTemporary_Never(u) == UNCHANGED <<files, temporaries, tampered>>

\* The content is there already, or the upload failed: temporary.unlink().
RemoveTemporary(u) ==
  /\ temporaries' = temporaries \ {u}
  /\ UNCHANGED <<files, tampered>>

\* Another program overwrites or deletes a stored file, once per digest.
Tamper(d) ==
  /\ Exists(d)
  /\ d \notin tampered
  /\ \E damage \in {"absent", "damaged"} : files' = [files EXCEPT ![d] = damage]
  /\ tampered' = tampered \cup {d}
  /\ UNCHANGED temporaries
=============================================================================
