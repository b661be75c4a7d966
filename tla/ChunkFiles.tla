------------------------------- MODULE ChunkFiles -------------------------------
(***************************************************************************)
(* The two files of one chunk, objects/aa/bb.. and recovery/aa/bb...parr,  *)
(* under concurrent put_chunk calls, damage and verification               *)
(* (repository.rs, recovery.rs, verification.rs).                          *)
(*                                                                         *)
(* Repository takes writes to be atomic.  Here a write is what the storage *)
(* behind the opendal operator makes of it: on an object store a file      *)
(* appears whole; the local file system, which storage.rs sets up without  *)
(* a directory for atomic writes, creates or truncates the file and fills  *)
(* it in place, and who dies half way leaves a torn file under the final   *)
(* name, which list_objects reports like any other.                        *)
(*                                                                         *)
(* The content of a file is a sequence of Pieces, the data shards of the   *)
(* recovery codec.  In an encrypted repository every put_chunk draws a new *)
(* nonce, so each client writes a version of its own.  In a plain one the  *)
(* bytes depend on the compressor the client's command set, so that two    *)
(* clients write the same only if they compress alike.                     *)
(***************************************************************************)
EXTENDS Naturals, FiniteSets

CONSTANTS
  Clients,   \* processes that put the chunk, each on a handle of its own
  Codecs,    \* compressors a command may set
  Pieces,    \* pieces of the object: the data shards of the codec
  Parity,    \* pieces the recovery file can replace: the parity shards
  MaxRot     \* bound: pieces of the object that may rot

ASSUME SizesAssumption == Pieces \in Nat \ {0} /\ Parity \in Nat /\ MaxRot \in Nat
ASSUME VersionsAssumption == (Clients \cup Codecs) \cap {"none", "torn", "hole", "rot"} = {}

VARIABLES
  setup,   \* how the repository is stored and the clients compress; never changes
  obj,     \* the object file: its pieces, or NoFile
  open,    \* clients whose file is obj still, which they write in place
  par,     \* the recovery file: none, torn, or the version it was made from
  stage,   \* stage[c]: where client c is in open and put_chunk
  written, \* written[c]: pieces client c has written
  cached,  \* clients that found the object when they opened
  report,  \* verify_all: has it listed the chunk, and what it said of it
  harm     \* what has happened to the files of the chunk (history)

putVars == <<obj, open, par, stage, written, cached, harm>>
fileVars == <<setup, putVars, report>>

Versions == Clients \cup Codecs
NoFile == << >>
PieceRange == 1 .. Pieces
Filled(v) == [k \in PieceRange |-> v]
Empty == Filled("hole")

\* What client c writes: encrypted with its own nonce, or what its compressor made.
Setups ==
  {s \in [inPlace : BOOLEAN, encrypted : BOOLEAN, recovery : BOOLEAN, version : [Clients -> Versions]] :
     \A c \in Clients : IF s.encrypted THEN s.version[c] = c ELSE s.version[c] \in Codecs}

Version(c) == setup.version[c]

\* A client failed inside the object; two clients with different versions of it
\* overlapped; a client failed after the object and before the end of its parity;
\* and the two things that are not the doing of a client.
Harms == {"torn", "mixed", "bare", "rot", "gc"}

FilesTypeOK ==
  /\ setup \in Setups
  /\ obj = NoFile \/ obj \in [PieceRange -> Versions \cup {"hole", "rot"}]
  /\ open \subseteq {c \in Clients : stage[c] = "object"}
  /\ par \in {"none", "torn"} \cup Versions
  /\ par # "none" => setup.recovery
  /\ stage \in [Clients -> {"idle", "opened", "object", "parity", "done", "failed"}]
  /\ written \in [Clients -> 0 .. Pieces]
  /\ cached \subseteq Clients
  /\ report \in {"unlisted", "listed", "verified", "corrupted", "missing", "aborted"}
  /\ harm \subseteq Harms

FilesInit ==
  /\ setup \in Setups
  /\ obj = NoFile
  /\ open = {}
  /\ par = "none"
  /\ stage = [c \in Clients |-> "idle"]
  /\ written = [c \in Clients |-> 0]
  /\ cached = {}
  /\ report = "unlisted"
  /\ harm = {}

Proceeds(c, from, to) ==
  /\ stage[c] = from
  /\ stage' = [stage EXCEPT ![c] = to]

-------------------------------------------------------------------------------
(***************************************************************************)
(* open and put_chunk                                                      *)
(***************************************************************************)

\* Repository::open lists the names of the objects, not what is in them.
OpenRepository(c) ==
  /\ Proceeds(c, "idle", "opened")
  /\ cached' = IF obj = NoFile THEN cached ELSE cached \cup {c}
  /\ UNCHANGED <<setup, obj, open, par, written, report, harm>>

\* put_chunk: the chunk is in the cache.
Deduplicate(c) ==
  /\ c \in cached
  /\ Proceeds(c, "opened", "done")
  /\ UNCHANGED <<setup, obj, open, par, written, cached, report, harm>>

Writing == {c \in Clients : stage[c] \in {"object", "parity"}}

\* Client c joins others inside put_chunk, of whom one has another version.
MayMix(c) ==
  harm' = harm \cup (IF \E d \in Writing : Version(d) # Version(c) THEN {"mixed"} ELSE {})

\* put_object on a storage that shows a file when it is whole.
PutObject(c) ==
  /\ ~setup.inPlace
  /\ c \notin cached
  /\ Proceeds(c, "opened", "object")
  /\ obj' = Filled(Version(c))
  /\ written' = [written EXCEPT ![c] = Pieces]
  /\ MayMix(c)
  /\ UNCHANGED <<setup, open, par, cached, report>>

\* put_object on the local file system: create or truncate the file ...
CreateObject(c) ==
  /\ setup.inPlace
  /\ c \notin cached
  /\ Proceeds(c, "opened", "object")
  /\ obj' = Empty
  /\ open' = open \cup {c}
  /\ MayMix(c)
  /\ UNCHANGED <<setup, par, written, cached, report>>

\* ... and fill it.  Who had the file open when gc unlinked it fills that one.
WritePiece(c) ==
  /\ stage[c] = "object"
  /\ written[c] < Pieces
  /\ written' = [written EXCEPT ![c] = @ + 1]
  /\ obj' = IF c \in open THEN [obj EXCEPT ![written[c] + 1] = Version(c)] ELSE obj
  /\ UNCHANGED <<setup, open, par, stage, cached, report, harm>>

\* put_chunk without a recovery profile is over.
SkipParity(c) ==
  /\ ~setup.recovery
  /\ written[c] = Pieces
  /\ Proceeds(c, "object", "done")
  /\ open' = open \ {c}
  /\ UNCHANGED <<setup, obj, par, written, cached, report, harm>>

\* put_recovery is called; in place, the file is created or truncated.
BeginParity(c) ==
  /\ setup.recovery
  /\ written[c] = Pieces
  /\ Proceeds(c, "object", "parity")
  /\ open' = open \ {c}
  /\ par' = IF setup.inPlace THEN "torn" ELSE par
  /\ UNCHANGED <<setup, obj, written, cached, report, harm>>

\* Faulty: the parity is that of the chunk before it was encrypted.
FinishParityOfPlain(c) ==
  /\ Proceeds(c, "parity", "done")
  /\ par' \in IF setup.encrypted THEN Codecs ELSE {Version(c)}
  /\ UNCHANGED <<setup, obj, open, written, cached, report, harm>>

\* put_recovery returns: the parity is that of what this client stored, unless
\* a client with another version wrote into the file with it.
FinishParity(c) ==
  /\ Proceeds(c, "parity", "done")
  /\ par' \in {Version(c)} \cup (IF setup.inPlace /\ "mixed" \in harm THEN {"torn"} ELSE {})
  /\ UNCHANGED <<setup, obj, open, written, cached, report, harm>>

\* Faulty: put_chunk swallows the error of the storage.
FailSilently(c) ==
  /\ \E from \in {"opened", "object", "parity"} : Proceeds(c, from, "done")
  /\ open' = open \ {c}
  /\ UNCHANGED <<setup, obj, par, written, cached, report, harm>>

\* The storage returns an error, which put_chunk passes up, or the client dies.
Fail(c) ==
  /\ \E from \in {"opened", "object", "parity"} : Proceeds(c, from, "failed")
  /\ open' = open \ {c}
  /\ harm' = harm \cup (IF c \in open /\ written[c] < Pieces THEN {"torn"} ELSE {})
                  \cup (IF setup.recovery /\ c \in Writing THEN {"bare"} ELSE {})
  /\ UNCHANGED <<setup, obj, par, written, cached, report>>

-------------------------------------------------------------------------------
(***************************************************************************)
(* Damage, and what get_chunk and verify_all make of it                    *)
(***************************************************************************)

RottenPieces == {k \in PieceRange : obj # NoFile /\ obj[k] = "rot"}

\* A piece of the object rots on the medium.
Rot(k) ==
  /\ obj # NoFile
  /\ Cardinality(RottenPieces) < MaxRot
  /\ obj' = [obj EXCEPT ![k] = "rot"]
  /\ harm' = harm \cup {"rot"}
  /\ UNCHANGED <<setup, open, par, stage, written, cached, report>>

\* gc deletes the object.  It knows nothing of the recovery file.
Collect ==
  /\ obj # NoFile
  /\ obj' = NoFile
  /\ open' = {}
  /\ harm' = harm \cup {"gc"}
  /\ UNCHANGED <<setup, par, stage, written, cached, report>>

Intact(o) == \E v \in Versions : o = Filled(v)

\* RecoveryCodec::reconstruct: pieces that fail their CRC are made up for by the
\* parity pieces, if there are enough of these.
Mended(o, p) ==
  p \in Versions /\ Cardinality({k \in PieceRange : o[k] # p}) <= Parity

\* get_chunk: the kind of its result.  Damaged bytes may not decode, and in an
\* encrypted repository fail the HMAC; only when they decode and decompress to
\* other data does the recovery file come into play.
Outcomes(o, p) ==
  IF o = NoFile THEN {"Repository"}
  ELSE IF Intact(o) THEN {"Ok"}
  ELSE IF setup.encrypted THEN {"Decode", "IntegrityCheck"}
  ELSE {"Decode"} \cup
       (IF ~setup.recovery THEN {"IntegrityCheck"}
        ELSE IF p = "none" THEN {"Repository"}
        ELSE IF p = "torn" THEN {"Io", "IntegrityCheck"}
        ELSE IF Mended(o, p) THEN {"Ok"} ELSE {"Internal"})

\* verify_chunk and verify_all: any other error ends the verification.
Verdict(outcome) ==
  CASE outcome = "Ok" -> "verified"
    [] outcome = "IntegrityCheck" -> "corrupted"
    [] outcome = "Repository" -> "missing"
    [] OTHER -> "aborted"

\* The verifier opens the repository: it will look at the objects listed now.
ListForVerify ==
  /\ report # "listed"
  /\ report' = IF obj = NoFile THEN "unlisted" ELSE "listed"
  /\ UNCHANGED <<setup, putVars>>

\* Faulty: verify_all looks at a chunk it has not listed.
VerifyUnlisted ==
  /\ \E outcome \in Outcomes(obj, par) : report' = Verdict(outcome)
  /\ UNCHANGED <<setup, putVars>>

\* verify_all reads the chunk.
Verify ==
  /\ report = "listed"
  /\ \E outcome \in Outcomes(obj, par) : report' = Verdict(outcome)
  /\ UNCHANGED <<setup, putVars>>

PutStep(c) ==
  \/ OpenRepository(c) \/ Deduplicate(c)
  \/ PutObject(c) \/ CreateObject(c) \/ WritePiece(c)
  \/ SkipParity(c) \/ BeginParity(c) \/ FinishParity(c)
  \/ Fail(c)

FilesNext ==
  \/ \E c \in Clients : PutStep(c)
  \/ \E k \in PieceRange : Rot(k)
  \/ Collect
  \/ ListForVerify
  \/ Verify

FilesSpec == FilesInit /\ [][FilesNext]_fileVars

-------------------------------------------------------------------------------
(***************************************************************************)
(* Properties                                                              *)
(***************************************************************************)

\* What can spoil an object: on a storage that shows whole files, only the
\* medium and gc.  In place, also a client that fails while it writes, be it
\* over an object another client has stored, and two versions that are written
\* over one another, be it of one chunk compressed in two ways.
Spoilers == {"rot", "gc"} \cup (IF setup.inPlace THEN {"torn", "mixed"} ELSE {})

\* What put_chunk said it stored, or found stored, can be read back once no
\* client is writing, unless one of the spoilers struck: clients that rewrite
\* the chunk, that fail between object and parity, or that deduplicate against
\* an object another is still writing do no harm.
StoredStays ==
  (\E c \in Clients : stage[c] = "done") /\ Writing = {} /\ harm \cap Spoilers = {}
    => Intact(obj)

\* The parity fits the object: the pieces that have not rotted are those it was
\* made from, so that it can mend as many as it has parity pieces.  A client
\* that failed in between, or clients with different versions that overlapped,
\* break this; rewriting in another version, deduplication and a gc that leaves the
\* parity behind do not.
ParityFits ==
  setup.recovery /\ obj # NoFile /\ Writing = {} /\ harm \subseteq {"rot", "gc"}
    => \A k \in PieceRange : obj[k] \in {par, "rot"}

\* The verdict of verify_all, when no client is writing, is true both ways: what
\* nothing has spoiled is verified, and what is verified can be read, whole or
\* mended; of the rest it says damaged, missing, or breaks off.
VerdictsTrue ==
  [][Verify /\ Writing = {} =>
       /\ harm \cap Spoilers = {} => report' = "verified"
       /\ report' = "verified" => Intact(obj) \/ Mended(obj, par)]_fileVars
===============================================================================
