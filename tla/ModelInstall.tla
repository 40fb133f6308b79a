----------------------------- MODULE ModelInstall -----------------------------
(***************************************************************************)
(* How a machine gets its weights and its runtime: resolve a request to a  *)
(* file and a digest, download it into a .part beside its destination,     *)
(* resuming what an earlier attempt left, keep it only if it hashes right, *)
(* then import it into the chunk store, or unpack it. Each file system     *)
(* call is a step, and the process may be killed between any two; whoever  *)
(* ran the command runs it again.                                          *)
(*                                                                         *)
(* A file is the sequence of its bytes, and its digest is itself.          *)
(***************************************************************************)
EXTENDS Naturals, Sequences, SequencesExt, FiniteSets

CONSTANTS
  Listings,     \* what a repository may list: sets of [name, quant, whole, sha256]
  Requests,     \* [kind, quant, sha256]: a model or the runtime, pinned or not
  Other,        \* what a server may send in place of the file
  Archive,      \* the files of the runtime's archive, llama-cli among them
  None,
  MaxMishaps    \* errors, wrong bodies and kills

VARIABLES
  request, listing,
  installer,       \* [at, file, rest]: the process that runs the command
  part_file, dest,      \* the bytes at the .part path and at the destination
  chunks, registry,    \* the chunk store and the manifest it is registered under
  materialized,    \* the bytes of the model file a runtime is given
  unpacked, pointer,   \* the runtime's directory and current.txt
  half,            \* a kill left a file or a directory half written in place
  mishaps

installVars == <<request, listing, installer, part_file, dest, chunks, registry, materialized,
                 unpacked, pointer, half, mishaps>>

Gone == [at |-> "idle", file |-> None, rest |-> <<>>]
Doing(place) == installer.at = place
GoesTo(place) == installer' = [installer EXCEPT !.at = place]
Mishap == mishaps < MaxMishaps /\ mishaps' = mishaps + 1

----------------------------------------------------------------------------
(* resolve: which file, and the digest it must have.                       *)

quantisation_matches(e, want) == want # None /\ e.quant = want

(* One whole file, or an error: a model in several files is not imported,  *)
(* and nothing is chosen between two that match.                           *)
select_gguf(entries, want) ==
  LET whole == {e \in entries : e.whole}
      matching == IF want = None THEN whole ELSE {e \in whole : quantisation_matches(e, want)}
  IN IF Cardinality(matching) = 1 THEN CHOOSE e \in matching : TRUE ELSE None

(* A pin outranks the digest of the listing; without either, no download.  *)
Expected(e) == IF request.sha256 # None THEN request.sha256 ELSE e.sha256

installed_runtime == "llama-cli" \in unpacked   \* through current.txt or the scan

resolve ==
  /\ Doing("idle")
  /\ \/ /\ request.kind = "model"
        /\ LET e == select_gguf(listing, request.quant)
           IN IF e # None /\ Expected(e) # None
              THEN installer' = [at |-> "resolved", file |-> e, rest |-> <<>>]
              ELSE GoesTo("refused")
     \/ /\ request.kind = "runtime"
        /\ IF installed_runtime THEN GoesTo("done")
           ELSE installer' = [at |-> "resolved", file |-> CHOOSE e \in listing : TRUE, rest |-> <<>>]
  /\ UNCHANGED <<request, listing, part_file, dest, chunks, registry, materialized, unpacked, pointer, half, mishaps>>

----------------------------------------------------------------------------
(* download_verified.                                                      *)
wanted == Expected(installer.file)

AlreadyThere ==
  /\ Doing("resolved") /\ dest = wanted
  /\ GoesTo("have")
  /\ UNCHANGED <<request, listing, part_file, dest, chunks, registry, materialized, unpacked, pointer, half, mishaps>>

(* The answer to a request for what is missing: 206 with the rest, 200     *)
(* with the whole body, 416 when there is no rest.                         *)
already == IF part_file = None THEN 0 ELSE Len(part_file)
Body(body) ==
  \/ /\ already > 0 /\ already < Len(body)
     /\ installer' = [installer EXCEPT !.at = "receiving", !.rest = SubSeq(body, already + 1, Len(body))]
     /\ part_file' = part_file
  \/ /\ part_file' = <<>>
     /\ installer' = [installer EXCEPT !.at = "receiving", !.rest = body]
\* Faulty: the part that cannot be resumed is kept.
RangeRefused_kept(body) ==
  /\ already > 0 /\ already >= Len(body)
  /\ GoesTo("idle")
  /\ UNCHANGED part_file
RangeRefused(body) ==
  /\ already > 0 /\ already >= Len(body)
  /\ part_file' = None
  /\ UNCHANGED installer
Answered ==
  /\ Doing("resolved") /\ dest # wanted
  /\ \/ RangeRefused(wanted) /\ UNCHANGED mishaps
     \/ Body(wanted) /\ UNCHANGED mishaps
     \/ Mishap /\ (RangeRefused(Other) \/ Body(Other))
     \/ Mishap /\ GoesTo("idle") /\ UNCHANGED part_file   \* an error status, or no answer
  /\ UNCHANGED <<request, listing, dest, chunks, registry, materialized, unpacked, pointer, half>>

Receive ==
  /\ Doing("receiving") /\ installer.rest # <<>>
  /\ \/ /\ part_file' = Append(part_file, Head(installer.rest))
        /\ installer' = [installer EXCEPT !.rest = Tail(@)]
        /\ UNCHANGED mishaps
     \/ Mishap /\ GoesTo("idle") /\ UNCHANGED part_file
  /\ UNCHANGED <<request, listing, dest, chunks, registry, materialized, unpacked, pointer, half>>

(* A wrong body is thrown away, and the command fails.                     *)
Hash ==
  /\ Doing("receiving") /\ installer.rest = <<>>
  /\ IF part_file = wanted THEN GoesTo("hashed") /\ UNCHANGED part_file
     ELSE GoesTo("idle") /\ part_file' = None
  /\ UNCHANGED <<request, listing, dest, chunks, registry, materialized, unpacked, pointer, half, mishaps>>

RemoveOld ==
  /\ Doing("hashed")
  /\ dest' = None
  /\ GoesTo("cleared")
  /\ UNCHANGED <<request, listing, part_file, chunks, registry, materialized, unpacked, pointer, half, mishaps>>

Rename ==
  /\ Doing("cleared")
  /\ dest' = part_file /\ part_file' = None
  /\ GoesTo("have")
  /\ UNCHANGED <<request, listing, chunks, registry, materialized, unpacked, pointer, half, mishaps>>

----------------------------------------------------------------------------
(* import_file: every chunk is put under its hash by a rename, then the    *)
(* manifest is registered; then the download is a second copy.             *)
put ==
  /\ Doing("have") /\ request.kind = "model"
  /\ \E i \in 1..Len(dest) :
       /\ <<i, dest[i]>> \notin chunks
       /\ chunks' = chunks \cup {<<i, dest[i]>>}
  /\ UNCHANGED <<request, listing, installer, part_file, dest, registry, materialized, unpacked, pointer, half, mishaps>>

register_entry ==
  /\ Doing("have") /\ request.kind = "model"
  /\ \A i \in 1..Len(dest) : <<i, dest[i]>> \in chunks
  /\ registry' = dest
  /\ GoesTo("registered")
  /\ UNCHANGED <<request, listing, part_file, dest, chunks, materialized, unpacked, pointer, half, mishaps>>

RemoveDownload ==
  /\ Doing("registered")
  /\ dest' = None
  /\ GoesTo("done")
  /\ UNCHANGED <<request, listing, part_file, chunks, registry, materialized, unpacked, pointer, half, mishaps>>

(* A model file that exists is run as it is; otherwise it is written in    *)
(* place, chunk after chunk.                                               *)
materialize ==
  /\ Doing("done") /\ request.kind = "model" /\ materialized # registry
  /\ \/ materialized = None /\ ~half /\ materialized' = <<>>
     \/ materialized # None /\ ~half /\ materialized' = Append(materialized, registry[Len(materialized) + 1])
  /\ UNCHANGED <<request, listing, installer, part_file, dest, chunks, registry, unpacked, pointer, half, mishaps>>

----------------------------------------------------------------------------
(* install_runtime: clear the directory, unpack file after file, find the  *)
(* executable and point current.txt at it.                                 *)
ClearTarget ==
  /\ Doing("have") /\ request.kind = "runtime"
  /\ unpacked' = {}
  /\ GoesTo("unpacking")
  /\ UNCHANGED <<request, listing, part_file, dest, chunks, registry, materialized, pointer, half, mishaps>>

extract ==
  /\ Doing("unpacking")
  /\ \E f \in Archive \ unpacked : unpacked' = unpacked \cup {f}
  /\ UNCHANGED <<request, listing, installer, part_file, dest, chunks, registry, materialized, pointer, half, mishaps>>

record_runtime ==
  /\ Doing("unpacking") /\ unpacked = Archive
  /\ pointer' = "llama-cli"
  /\ GoesTo("done")
  /\ UNCHANGED <<request, listing, part_file, dest, chunks, registry, materialized, unpacked, half, mishaps>>

(* The process dies. What was being written in place stays as it is, and   *)
(* passes for whole from then on.                                          *)
Killed ==
  /\ Mishap
  /\ installer' = Gone
  /\ half' = (half \/ (Doing("unpacking") /\ installed_runtime /\ unpacked # Archive)
                   \/ (Doing("done") /\ materialized # None /\ materialized # registry))
  /\ UNCHANGED <<request, listing, part_file, dest, chunks, registry, materialized, unpacked, pointer>>

----------------------------------------------------------------------------
InstallInit ==
  /\ request \in Requests /\ listing \in Listings
  /\ installer = Gone
  /\ part_file = None /\ dest = None
  /\ chunks = {} /\ registry = None /\ materialized = None
  /\ unpacked = {} /\ pointer = None
  /\ half = FALSE /\ mishaps = 0

InstallStep ==
  \/ resolve \/ AlreadyThere \/ Answered \/ Receive \/ Hash \/ RemoveOld \/ Rename
  \/ put \/ register_entry \/ RemoveDownload \/ materialize
  \/ ClearTarget \/ extract \/ record_runtime
InstallNext == InstallStep \/ Killed

(* The process runs while it lives, and a command that failed is given     *)
(* again.                                                                  *)
InstallFairness == WF_installVars(InstallStep)
InstallSpec == InstallInit /\ [][InstallNext]_installVars /\ InstallFairness

----------------------------------------------------------------------------
Complete ==
  IF request.kind = "runtime" THEN unpacked = Archive
  ELSE /\ registry = materialized
       /\ \E e \in listing :
            /\ e.whole /\ (request.quant # None => e.quant = request.quant)
            /\ registry = (IF request.sha256 # None THEN request.sha256 ELSE e.sha256)

(* However downloads fail, resume from what is no prefix of the file, or   *)
(* are killed, a command given again ends with the file that was asked     *)
(* for, whole and in place, unless the request is refused outright or a    *)
(* kill left a file half written in place (download_verified, import_file, *)
(* install_runtime, materialize).                                          *)
InstallCompletes == <>[](Complete \/ half \/ installer.at = "refused")
================================================================================
