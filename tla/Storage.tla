------------------------------- MODULE Storage -------------------------------
(***************************************************************************)
(* MemoryStorageAdapter, the default behind StorageService, as it is used  *)
(* by POST /demo/upload-stream and GET /demo/download-stream.              *)
(*                                                                         *)
(* uploadStream() first awaits that the body went through the pipeline and *)
(* only then reads the pipeline's last stage, a PassThrough.  Until then   *)
(* that stage keeps everything: once it holds as much as its high water    *)
(* mark, the pending write is acknowledged when somebody reads, and nobody *)
(* does.  A body is counted in pieces, after the gzip transform if there   *)
(* is one.  The cloud adapters hand the stream to a library.               *)
(***************************************************************************)
EXTENDS Naturals, FiniteSets

CONSTANTS
  Files,         \* keys
  Clients,       \* requests, each made once
  Sizes,         \* sizes of the bodies
  HighWaterMark  \* pieces that a stream buffers, 16 KiB (64 KiB) in Node

ASSUME StorageAssumption == Sizes \subseteq Nat /\ HighWaterMark \in Nat \ {0}

VARIABLES
  store,      \* the Map of the adapter
  calls       \* the requests

storageVars == <<store, calls>>

NoBody == [by |-> "NONE", pieces |-> 0, gzip |-> FALSE]
Call(at, f, size, gzip, piped, got) ==
  [at |-> at, file |-> f, size |-> size, gzip |-> gzip, piped |-> piped, got |-> got]
NoCall == Call("NEW", "NONE", 0, FALSE, 0, NoBody)

StorageInit ==
  /\ store = [f \in {} |-> NoBody]
  /\ calls = [c \in Clients |-> NoCall]

Body(c, n) == [by |-> c, pieces |-> n, gzip |-> calls[c].gzip]
Put(f, body) == store' = [g \in DOMAIN store \cup {f} |->
                            IF g = f THEN body ELSE store[g]]
Phase(c, at) == calls' = [calls EXCEPT ![c].at = at]

-----------------------------------------------------------------------------
(* Uploads.                                                                *)

\* A query without a key is answered at once.
Upload(c, f, size, gzip) ==
  /\ calls[c] = NoCall
  /\ calls' = [calls EXCEPT ![c] = Call("PIPING", f, size, gzip, 0, NoBody)]
  /\ UNCHANGED store

\* Mutant of Pipe: what has arrived is in the map already.
PipeIntoStore(c) ==
  /\ calls[c].at = "PIPING"
  /\ calls[c].piped < calls[c].size /\ calls[c].piped < HighWaterMark
  /\ calls' = [calls EXCEPT ![c].piped = @ + 1]
  /\ Put(calls[c].file, Body(c, calls[c].piped + 1))

\* A piece reaches the last stage, unless the write before it is still pending.
Pipe(c) ==
  /\ calls[c].at = "PIPING"
  /\ calls[c].piped < calls[c].size /\ calls[c].piped < HighWaterMark
  /\ calls' = [calls EXCEPT ![c].piped = @ + 1]
  /\ UNCHANGED store

\* pipeline() resolves when every write has been acknowledged.
PipelineEnds(c) ==
  /\ calls[c].at = "PIPING"
  /\ calls[c].piped = calls[c].size /\ calls[c].piped < HighWaterMark
  /\ Phase(c, "DRAINING")
  /\ UNCHANGED store

\* The stage is read until its end, and its chunks are stored as one Buffer.
Drain(c) ==
  /\ calls[c].at = "DRAINING"
  /\ Put(calls[c].file, Body(c, calls[c].piped))
  /\ Phase(c, "DONE")

\* The client goes away in the middle of the body: pipeline() rejects.
BreakOff(c) ==
  /\ calls[c].at = "PIPING" /\ calls[c].piped < calls[c].size
  /\ Phase(c, "FAILED")
  /\ UNCHANGED store

\* upload() of a Buffer.
UploadBuffer(c, f, size) ==
  /\ calls[c] = NoCall
  /\ calls' = [calls EXCEPT ![c] = Call("DONE", f, size, FALSE, size, NoBody)]
  /\ Put(f, Body(c, size))

DeleteFile(f) ==
  /\ store' = [g \in DOMAIN store \ {f} |-> store[g]]
  /\ UNCHANGED calls

-----------------------------------------------------------------------------
(* Downloads.                                                              *)

\* download() copies the Buffer, or throws; the copy is streamed, through gunzip
\* if the query says so.
Download(c, f, gunzip) ==
  /\ calls[c] = NoCall
  /\ calls' = [calls EXCEPT ![c] =
       IF f \in DOMAIN store THEN Call("READING", f, 0, gunzip, 0, store[f])
                             ELSE Call("FAILED", f, 0, FALSE, 0, NoBody)]
  /\ UNCHANGED store

\* downloadStream() chains the transforms: gunzip takes only what gzip made.
Readable(c) == calls[c].gzip => calls[c].got.gzip

\* The reply ends; a body that gunzip refuses, or a client that goes away, breaks
\* it off after its headers were sent.
Reply(c) ==
  /\ calls[c].at = "READING"
  /\ \/ Readable(c) /\ Phase(c, "RECEIVED")
     \/ Phase(c, "FAILED")
  /\ UNCHANGED store

StorageNext ==
  \/ \E c \in Clients :
       \/ \E f \in Files, size \in Sizes, gzip \in BOOLEAN : Upload(c, f, size, gzip)
       \/ \E f \in Files, size \in Sizes : UploadBuffer(c, f, size)
       \/ \E f \in Files, gunzip \in BOOLEAN : Download(c, f, gunzip)
       \/ Pipe(c) \/ PipelineEnds(c) \/ Drain(c) \/ BreakOff(c) \/ Reply(c)
  \/ \E f \in Files : DeleteFile(f)

\* The client sends, and the streams move what they can.
StorageFairness ==
  \A c \in Clients : WF_storageVars(Pipe(c) \/ PipelineEnds(c) \/ Drain(c))

StorageSpec == StorageInit /\ [][StorageNext]_storageVars
StorageFairSpec == StorageSpec /\ StorageFairness

-----------------------------------------------------------------------------
(* Properties.                                                             *)

Bodies == [by : Clients \cup {"NONE"}, pieces : Nat, gzip : BOOLEAN]

\* Every variable keeps its type.
StorageTypeOK ==
  /\ DOMAIN store \subseteq Files
  /\ \A f \in DOMAIN store : store[f] \in Bodies
  /\ calls \in [Clients ->
       [at : {"NEW", "PIPING", "DRAINING", "DONE", "READING", "RECEIVED", "FAILED"},
        file : Files \cup {"NONE"}, size : Sizes \cup {0}, gzip : BOOLEAN,
        piped : 0..HighWaterMark \cup Sizes, got : Bodies]]

\* Whatever is stored, or being read, is the whole body of one upload that was
\* answered: broken off, stuck and overlapping uploads of one key leave nothing
\* behind, and a download keeps the body that it began with.
Whole(body) == body.by \in Clients /\ calls[body.by].at = "DONE"
                 /\ body.pieces = calls[body.by].size
WholeBodies ==
  /\ \A f \in DOMAIN store : Whole(store[f])
  /\ \A c \in Clients : calls[c].at \in {"READING", "RECEIVED"} => Whole(calls[c].got)

-----------------------------------------------------------------------------
(* A statement of the documentation that the code does not meet.           *)

\* README, of POST /demo/upload-stream: "Streaming usage (large files)".  An upload
\* of any size ends.
UploadsEnd ==
  \A c \in Clients :
    calls[c].at = "PIPING" ~> calls[c].at \in {"DONE", "FAILED"}
=============================================================================
