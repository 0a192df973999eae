---------------------------- MODULE UrlDownload ----------------------------
(***************************************************************************)
(* How the file of an https:// or ollama-url source gets to be what the    *)
(* sentinel says is ready: ensureURL and ensureOllamaURL, the download     *)
(* record beside the file, and fetch.RangeDownloader below them.           *)
(*                                                                         *)
(* The file, its .part, the record and the sentinel outlive the process;   *)
(* it may stop between any two steps.  The upstream may serve another      *)
(* object at any time, the operator may pin another digest between two     *)
(* lives, and the file may be damaged between two passes.                  *)
(*                                                                         *)
(* Bytes come in blocks.  A file is the sequence of the objects its blocks *)
(* are from, so that a mixture of two objects is a value like any other,   *)
(* and stands for its own sha256.  An object stands for its own ETag.      *)
(***************************************************************************)
EXTENDS Sequences, Naturals

CONSTANTS
    Objects,        \* what the URL may serve
    Longest,        \* how long they can be
    Size,           \* the length of each
    Sources,        \* MODEL_SOURCE with and without a #sha256= fragment
    Declares,       \* the object whose digest a source declares, or None
    None, Bad,      \* no value; the owner of a damaged block
    Standing,       \* VERIFY_LEVEL
    Follow,         \* VERIFY_ON_DRIFT=follow
    Retries,        \* RangeOptions.MaxRetries
    MaxRequests,    \* bound: POST /api/retry
    MaxCrashes, MaxChanges, MaxDamages, \* bounds: process, upstream, file
    MaxFaults       \* bound: requests, transfers and writes that fail

ASSUME ObjectsAssumption ==
    /\ Longest \in Nat /\ Size \in [Objects -> 1..Longest]
    /\ None \notin Objects /\ Bad \notin Objects
    /\ Declares \in [Sources -> Objects \cup {None}]

ASSUME OptionsAssumption ==
    /\ Standing \in {"size", "sha256"} /\ Follow \in BOOLEAN
    /\ Retries \in Nat /\ MaxRequests \in Nat
    /\ MaxCrashes \in Nat /\ MaxChanges \in Nat /\ MaxDamages \in Nat
    /\ MaxFaults \in Nat

VARIABLES
    upstream,       \* the object the URL serves
    source,         \* the MODEL_SOURCE of this life of the process
    dest, part,     \* the model file (None: there is none) and its .part
    record,         \* the download record, or None
    sentinel,       \* the sentinel names the model file
    pc, outcome,    \* where the pass is; how the last one ended
    level,          \* passLevel of the pass
    total, etag,    \* what its HEAD returned: 0 and None if nothing
    tries,          \* retries of Download so far
    tampered,       \* history: damage since the record was written
    stuck,          \* history: a stale record could not be removed
    orphaned,       \* history: a pass took the file from under the sentinel
    rejected,       \* history: the bytes this pass found unfit, or None
    requests, crashes, changes, damages, faults

file    == <<dest, part>>
pass    == <<level, total, etag, tries, rejected>>
history == <<tampered, stuck, orphaned>>
world   == <<upstream, changes, source, requests, crashes, damages>>

vars == <<world, file, record, sentinel, pc, outcome, pass, history, faults>>

Levels == {"size", "sha256", "remote"}
HashesLocally(l) == l # "size"

(* The object, as a file. *)
Whole(o) == [i \in 1..Size[o] |-> o]

Lengths == 0..Longest
Files == UNION {[1..n -> Objects \cup {Bad}] : n \in Lengths}

ASSUME NoFileAssumption == None \notin Files

(* verify.Sidecar, of one file.  The source is there for its identity.     *)
Records == [source : Sources, size : Lengths, sha : Files \cup {None},
            etag : Objects \cup {None}]

Init ==
    /\ upstream \in Objects /\ source \in Sources
    /\ dest = None /\ part = <<>> /\ record = None /\ sentinel = FALSE
    /\ pc = "idle" /\ outcome = "none"
    /\ level = Standing /\ total = 0 /\ etag = None /\ tries = 0
    /\ tampered = FALSE /\ stuck = FALSE /\ orphaned = FALSE /\ rejected = None
    /\ requests = 0 /\ crashes = 0 /\ changes = 0 /\ damages = 0 /\ faults = 0

Goto(next) == pc' = next /\ UNCHANGED outcome

(* The pass is over, and its variables with it. *)
Leave(how) ==
    /\ pc' = "idle" /\ outcome' = how
    /\ level' = Standing /\ total' = 0 /\ etag' = None /\ tries' = 0
    /\ rejected' = None

Fault == faults < MaxFaults /\ faults' = faults + 1

-----------------------------------------------------------------------------
(* The pass, up to the download. *)

Begin(l, force) ==
    /\ pc = "idle"
    /\ level' = l
    /\ Goto(IF force THEN "clearSentinel" ELSE "reuse")
    /\ UNCHANGED <<total, etag, tries, rejected, file, record, sentinel, history>>

(* The boot, and the timer after a failure a retry may cure. *)
BeginDue ==
    /\ outcome \in {"none", "retriable"}
    /\ Begin(Standing, FALSE)
    /\ UNCHANGED <<world, faults>>

(* POST /api/retry, or the self-heal of a daemon that lost its model, which *)
(* sets no option.                                                         *)
BeginRequested(l, force) ==
    /\ requests < MaxRequests
    /\ requests' = requests + 1
    /\ Begin(l, force)
    /\ UNCHANGED <<upstream, changes, source, crashes, damages, faults>>

(* Mutant: force leaves the sentinel to the end of the pass. *)
ClearSentinelLater ==
    /\ pc = "clearSentinel"
    /\ Goto("clearRecord")
    /\ UNCHANGED <<world, file, record, sentinel, pass, history, faults>>

(* clearSentinelForForce; a removal that fails is logged. *)
ClearSentinel ==
    /\ pc = "clearSentinel"
    /\ \/ sentinel' = FALSE /\ UNCHANGED <<orphaned, faults>>
       \/ Fault /\ orphaned' = TRUE /\ UNCHANGED sentinel
    /\ Goto("clearRecord")
    /\ UNCHANGED <<world, file, record, pass, tampered, stuck>>

(* removeURLSidecar, of a forced pass and before every download.           *)
RemoveRecord ==
    \/ record' = None /\ stuck' = FALSE /\ UNCHANGED faults
    \/ record # None /\ Fault /\ stuck' = TRUE /\ UNCHANGED record

ClearRecord ==
    /\ pc = "clearRecord"
    /\ RemoveRecord
    /\ Goto("clearBytes")
    /\ UNCHANGED <<world, file, sentinel, pass, tampered, orphaned>>

ClearBytes ==
    /\ pc = "clearBytes"
    /\ dest' = None
    /\ Goto("clearPart")
    /\ UNCHANGED <<world, part, record, sentinel, pass, history, faults>>

ClearPart ==
    /\ pc = "clearPart"
    /\ part' = <<>>
    /\ Goto("reuse")
    /\ UNCHANGED <<world, dest, record, sentinel, pass, history, faults>>

(* Source.Equal.  Mutant: the digest is not part of a source's identity.   *)
SameURL == record # None

SameSource == record # None /\ record.source = source

(* CheckLocal: the length, and the digest if one was recorded and the      *)
(* level hashes.                                                           *)
Intact ==
    /\ dest # None
    /\ Len(dest) = record.size
    /\ HashesLocally(level) /\ record.sha # None => dest = record.sha

(* checkURLDrift can find that the upstream has moved: by its ETag, or, if *)
(* it sends none, by its length.  It may also fail to find out.            *)
CanDrift ==
    \/ record.etag # None /\ record.etag # upstream
    \/ record.size # Size[upstream]

Reuse ==
    /\ pc = "reuse" /\ SameSource /\ Intact
    /\ Goto("publish")
    /\ UNCHANGED <<world, file, record, sentinel, pass, history, faults>>

(* No record, another source, unfit bytes, or bytes to be replaced. *)
Reject ==
    /\ pc = "reuse"
    /\ SameSource /\ Intact => level = "remote" /\ Follow /\ CanDrift
    /\ rejected' = IF SameSource /\ ~Intact THEN dest ELSE None
    /\ Goto("unrecord")
    /\ UNCHANGED <<world, file, record, sentinel, level, total, etag, tries, history,
                   faults>>

(* Mutant: the record stands until the next one replaces it. *)
UnrecordNothing ==
    /\ pc = "unrecord"
    /\ Goto("head")
    /\ UNCHANGED <<world, file, record, sentinel, pass, history, faults>>

(* The record goes before the bytes it describes. *)
Unrecord ==
    /\ pc = "unrecord"
    /\ RemoveRecord
    /\ Goto("head")
    /\ UNCHANGED <<world, file, sentinel, pass, tampered, orphaned>>

-----------------------------------------------------------------------------
(* RangeDownloader.Download. *)

(* HEAD may be refused, and may leave out the length or the ETag.  A file  *)
(* of the advertised length is taken as downloaded.                        *)
HeadAnswers ==
    /\ pc = "head"
    /\ total' \in {0, Size[upstream]} /\ etag' \in {None, upstream}
    /\ tries' = 0
    /\ Goto(IF total' > 0 /\ dest # None /\ Len(dest) = total'
            THEN "verify" ELSE "attempt")
    /\ UNCHANGED <<world, file, record, sentinel, level, rejected, history, faults>>

(* A status that is not OK, or a transport error.  Which of them a later   *)
(* pass may cure is up to urlDownloadUserMessage.                          *)
HeadFails ==
    /\ pc = "head" /\ Fault
    /\ \E how \in {"retriable", "permanent"} : Leave(how)
    /\ UNCHANGED <<world, file, record, sentinel, history>>

(* What attempt keeps of the .part: one that is longer than the upstream's *)
(* object is dropped.                                                      *)
Existing == IF total > 0 /\ Len(part) > total THEN <<>> ELSE part

Complete ==
    /\ pc = "attempt" /\ total > 0 /\ Len(Existing) = total
    /\ Goto("rename")
    /\ UNCHANGED <<world, file, record, sentinel, pass, history, faults>>

Incomplete == pc = "attempt" /\ (total = 0 \/ Len(Existing) # total)

(* The range is honoured unless If-Range names another ETag: this HEAD's,  *)
(* no other is known to the caller.                                        *)
RangeHolds == Existing # <<>> /\ etag \in {None, upstream}

(* The bytes a response adds to: those there are for 206, none for 200,    *)
(* which a server may also send to ignore the range.                       *)
Kept == {<<>>} \cup IF RangeHolds /\ Len(Existing) < Size[upstream]
                    THEN {Existing} ELSE {}

Extended(kept, n) == kept \o SubSeq(Whole(upstream), Len(kept) + 1, Len(kept) + n)

(* streamInto reaches the end of the body; an unexpected length is retried. *)
Stream(kept) ==
    /\ Incomplete
    /\ part' = Extended(kept, Size[upstream] - Len(kept))
    /\ Goto(IF total \in {0, Len(part')} THEN "rename" ELSE "again")
    /\ UNCHANGED <<world, dest, record, sentinel, pass, history, faults>>

(* It does not; not every error is one that Download retries itself.       *)
StreamBreaks(kept, n) ==
    /\ Incomplete /\ Fault
    /\ n < Size[upstream] - Len(kept)
    /\ part' = Extended(kept, n)
    /\ \/ Goto("again") /\ UNCHANGED pass
       \/ Leave("retriable")
    /\ UNCHANGED <<world, dest, record, sentinel, history>>

(* 416: the .part is as long as what there is, or longer. *)
Unsatisfiable ==
    /\ Incomplete /\ RangeHolds /\ Len(Existing) >= Size[upstream]
    /\ part' = <<>>
    /\ Goto("again")
    /\ UNCHANGED <<world, dest, record, sentinel, pass, history, faults>>

(* The GET gets no body. *)
Refused ==
    /\ Incomplete /\ Fault
    /\ part' = Existing
    /\ \/ Goto("again") /\ UNCHANGED pass
       \/ \E how \in {"retriable", "permanent"} : Leave(how)
    /\ UNCHANGED <<world, dest, record, sentinel, history>>

Again ==
    /\ pc = "again" /\ tries < Retries
    /\ tries' = tries + 1
    /\ Goto("attempt")
    /\ UNCHANGED <<world, file, record, sentinel, level, total, etag, rejected,
                   history, faults>>

(* ErrTooManyRetries. *)
GiveUp ==
    /\ pc = "again" /\ tries = Retries
    /\ Leave("retriable")
    /\ UNCHANGED <<world, file, record, sentinel, history, faults>>

Rename ==
    /\ pc = "rename"
    /\ dest' = part /\ part' = <<>>
    /\ Goto("verify")
    /\ UNCHANGED <<world, record, sentinel, pass, history, faults>>

-----------------------------------------------------------------------------
(* What downloadURL, writeURLSidecar and writeSentinelPath do with it.     *)

Fits == Declares[source] # None => dest = Whole(Declares[source])

VerifyDeclared ==
    /\ pc = "verify" /\ Fits
    /\ Goto("record")
    /\ UNCHANGED <<world, file, record, sentinel, pass, history, faults>>

(* Mutant: bytes that do not fit are left for the next attempt. *)
MismatchKeepsFile ==
    /\ pc = "verify" /\ ~Fits
    /\ Leave("retriable")
    /\ UNCHANGED <<world, file, record, sentinel, history, faults>>

(* The file is deleted, whatever the sentinel says of it. *)
Mismatch ==
    /\ pc = "verify" /\ ~Fits
    /\ dest' = None
    /\ orphaned' = TRUE
    /\ Leave("retriable")
    /\ UNCHANGED <<world, part, record, sentinel, tampered, stuck, faults>>

(* The digest is the declared one, or hashed now if the level asks for it. *)
NewRecord ==
    [source |-> source, size |-> Len(dest), etag |-> etag,
     sha |-> IF Declares[source] # None THEN Whole(Declares[source])
             ELSE IF HashesLocally(level) THEN dest ELSE None]

(* A record that cannot be written is only logged. *)
WriteRecord ==
    /\ pc = "record"
    /\ \/ record' = NewRecord /\ tampered' = FALSE /\ stuck' = FALSE
          /\ UNCHANGED faults
       \/ Fault /\ UNCHANGED <<record, tampered, stuck>>
    /\ Goto("publish")
    /\ UNCHANGED <<world, file, sentinel, pass, orphaned>>

Publish ==
    /\ pc = "publish"
    /\ sentinel' = TRUE /\ orphaned' = FALSE
    /\ Leave("ok")
    /\ UNCHANGED <<world, file, record, tampered, stuck, faults>>

(* Register or the sentinel fails. *)
PublishFails ==
    /\ pc = "publish" /\ Fault
    /\ Leave("permanent")
    /\ UNCHANGED <<world, file, record, sentinel, history>>

-----------------------------------------------------------------------------
(* What happens to it all. *)

(* The process dies and starts, maybe with another MODEL_SOURCE.           *)
Restart ==
    /\ crashes < MaxCrashes
    /\ crashes' = crashes + 1
    /\ source' \in Sources
    /\ Leave("none")
    /\ UNCHANGED <<upstream, changes, requests, damages, file, record, sentinel,
                   history, faults>>

UpstreamChanges ==
    /\ changes < MaxChanges
    /\ changes' = changes + 1
    /\ upstream' \in Objects \ {upstream}
    /\ UNCHANGED <<source, requests, crashes, damages, file, record, sentinel, pc,
                   outcome, pass, history, faults>>

(* Between two passes the file is deleted, cut short, or overwritten.      *)
Damage ==
    /\ damages < MaxDamages /\ pc = "idle" /\ dest # None /\ dest # <<>>
    /\ damages' = damages + 1
    /\ dest' \in {None, SubSeq(dest, 1, Len(dest) - 1), [dest EXCEPT ![1] = Bad]}
    /\ tampered' = TRUE
    /\ UNCHANGED <<upstream, changes, source, requests, crashes, part, record,
                   sentinel, pc, outcome, pass, stuck, orphaned, faults>>

-----------------------------------------------------------------------------

Download ==
    \/ HeadAnswers \/ HeadFails
    \/ Complete \/ Unsatisfiable \/ Refused \/ Again \/ GiveUp \/ Rename
    \/ \E kept \in Kept :
          \/ Stream(kept)
          \/ \E n \in Lengths : StreamBreaks(kept, n)

Pass ==
    \/ BeginDue
    \/ ClearSentinel \/ ClearRecord \/ ClearBytes \/ ClearPart
    \/ Reuse \/ Reject \/ Unrecord
    \/ Download
    \/ VerifyDeclared \/ Mismatch \/ WriteRecord \/ Publish \/ PublishFails

Next ==
    \/ Pass
    \/ \E l \in Levels, force \in BOOLEAN : BeginRequested(l, force)
    \/ Restart \/ UpstreamChanges \/ Damage

Spec == Init /\ [][Next]_vars

(* A pass runs to its end, and the next one that is due begins. *)
FairSpec == Spec /\ WF_vars(Pass)

-----------------------------------------------------------------------------

TypeOK ==
    /\ upstream \in Objects /\ source \in Sources
    /\ dest \in Files \cup {None} /\ part \in Files
    /\ record \in Records \cup {None} /\ sentinel \in BOOLEAN
    /\ pc \in {"idle", "clearSentinel", "clearRecord", "clearBytes", "clearPart",
               "reuse", "unrecord", "head", "attempt", "again", "rename", "verify",
               "record", "publish"}
    /\ outcome \in {"none", "ok", "retriable", "permanent"}
    /\ level \in Levels
    /\ total \in Lengths /\ etag \in Objects \cup {None} /\ tries \in 0..Retries
    /\ rejected \in Files \cup {None}
    /\ tampered \in BOOLEAN /\ stuck \in BOOLEAN /\ orphaned \in BOOLEAN
    /\ requests \in 0..MaxRequests /\ crashes \in 0..MaxCrashes
    /\ changes \in 0..MaxChanges /\ damages \in 0..MaxDamages
    /\ faults \in 0..MaxFaults

(* A record never vouches for bytes it did not see, wherever a pass was    *)
(* cut short: it goes before they do and comes after them (ensure.go,      *)
(* downloadAndRecordURL; sidecar.go, removeURLSidecar).                    *)
RecordIsTrue ==
    record # None /\ ~tampered /\ ~stuck =>
        /\ dest # None /\ Len(dest) = record.size
        /\ record.sha # None => dest = record.sha

(* A source with a #sha256= is announced with exactly those bytes: over    *)
(* mixtures of two objects, changed pins and shortcuts, and over damage    *)
(* too at a level that hashes.                                             *)
DeclaredBytesOnly ==
    pc = "publish" /\ Declares[source] # None /\ ~stuck
        /\ (~tampered \/ HashesLocally(level))
    => dest = Whole(Declares[source])

(* Force takes the sentinel before the file it names (ensure.go,           *)
(* clearSentinelForForce), so an engine restarted meanwhile waits.         *)
SentinelNamesFile ==
    sentinel /\ dest = None => tampered \/ orphaned

(* A pass comes to an end, and the passes do, once the URL serves what the *)
(* source declares: what an earlier pass left behind is not rejected for   *)
(* ever.                                                                   *)
DownloadSettles ==
    <>[](Declares[source] \in {None, upstream})
        => <>[](pc = "idle" /\ outcome \in {"ok", "permanent"})

(* Bytes a pass found unfit are not what it announces: sidecar.go, "local  *)
(* model bytes failed verification, downloading again".                    *)
RejectedBytesAreReplaced ==
    pc = "publish" /\ rejected # None => dest # rejected

=============================================================================
