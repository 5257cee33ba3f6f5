--------------------------- MODULE StreamTransport ---------------------------
(***************************************************************************)
(* The quarantined credit-window transport of experimental/*/transport.py: *)
(* a BackpressuredStreamRouter that sends chunks and waits for cumulative  *)
(* acknowledgements, a BackpressuredReceiver (or tensor listener) that     *)
(* takes them, and the shared-memory blocks that carry a chunk to a        *)
(* receiver on the same machine.                                           *)
(*                                                                         *)
(* The sender runs on the event loop; acknowledgements and chunks arrive   *)
(* on Zenoh threads, between any two of its steps.  Zenoh keeps the order  *)
(* of the chunks and may lose some, and acknowledgements too.              *)
(***************************************************************************)
EXTENDS Naturals, Sequences, Functions

CONSTANTS
    Window,      \* window_size
    MaxChunks,   \* chunks the sender has to send
    MaxUpstream  \* frames the router may take as a listener itself

ASSUME StreamAssumption == Window \in Nat

VARIABLES
    sender,      \* idle, checking the window, full (found it so), or waiting
    path,        \* which of send_chunk and send_tensor_payload was called last
    sent,        \* sent_count
    acked,       \* ack_count
    event,       \* _ack_event is set
    declared,    \* the router's publisher is declared
    subscribed,  \* a subscriber for acknowledgements is declared
    stream,      \* chunks under way
    blocks,      \* shared-memory blocks that exist
    processed,   \* the receiver's processed_count
    acks,        \* acknowledgements under way
    listening,   \* the receiver's subscriber is declared
    upstream,    \* history: frames the router took as a listener
    strayed,     \* history: local chunks no receiver will take
    missed       \* history: since the window was last found full, it was opened
                 \* without a wake-up

routerVars == <<path, declared, subscribed>>
senderVars == <<sender, sent, acked, event, routerVars>>
receiverVars == <<processed, listening>>
streamVars == <<senderVars, stream, blocks, receiverVars, acks, upstream, strayed, missed>>

-----------------------------------------------------------------------------
(***************************************************************************)
(* BackpressuredStreamRouter.send_chunk and send_tensor_payload            *)
(***************************************************************************)

WindowOvershot == sent > acked + Window
WindowFull == sent >= acked + Window

\* A tensor frame has a publisher of its own, and its acknowledgements are
\* subscribed to before the window is looked at.
CallSend(kind) ==
    /\ sender = "idle" /\ sent < MaxChunks
    /\ sender' = "checking"
    /\ path' = kind
    /\ subscribed' = (subscribed \/ kind = "tensor")
    /\ UNCHANGED <<sent, acked, event, declared, stream, blocks, receiverVars, acks,
                   upstream, strayed, missed>>

\* A local chunk goes into a block of its own and only the name is published.  A
\* stopped router has no publisher for plain chunks and drops them.
Publishes == path = "tensor" \/ declared

\* SharedMemoryIPC.write_data
Written(local) == IF local THEN blocks \cup {sent} ELSE blocks

SendChunk(local) ==
    /\ sender = "checking" /\ ~WindowFull
    /\ sender' = "idle"
    /\ sent' = sent + 1
    /\ stream' = IF Publishes THEN Append(stream, [id |-> sent, local |-> local]) ELSE stream
    /\ blocks' = Written(local)
    /\ strayed' = IF local /\ ~Publishes THEN strayed \cup {sent} ELSE strayed
    /\ UNCHANGED <<acked, event, routerVars, receiverVars, acks, upstream, missed>>

FindFull ==
    /\ sender = "checking" /\ WindowFull
    /\ sender' = "full"
    /\ missed' = FALSE
    /\ UNCHANGED <<sent, acked, event, routerVars, stream, blocks, receiverVars, acks,
                   upstream, strayed>>

ClearAndWait ==
    /\ sender = "full"
    /\ sender' = "waiting"
    /\ event' = FALSE
    /\ UNCHANGED <<sent, acked, routerVars, stream, blocks, receiverVars, acks, upstream,
                   strayed, missed>>

Wake ==
    /\ sender = "waiting" /\ event
    /\ sender' = "checking"
    /\ UNCHANGED <<sent, acked, event, routerVars, stream, blocks, receiverVars, acks,
                   upstream, strayed, missed>>

\* receive_ack: acknowledgements are cumulative and any of them sets the event
EventUnset(seq) == event
EventAfter(seq) == TRUE

ReceiveAck(seq) ==
    /\ seq \in acks /\ subscribed
    /\ acks' = acks \ {seq}
    /\ acked' = IF seq > acked THEN seq ELSE acked
    /\ event' = EventAfter(seq)
    /\ missed' = (missed \/ sender = "full")
    /\ UNCHANGED <<sender, sent, routerVars, stream, blocks, receiverVars, upstream,
                   strayed>>

\* start_tensor_listener on the router: a frame from the stage before is counted
\* in the same ack_count its own sender compares with; the event is not set.  Its
\* subscriber belongs to the caller, and stop does not undeclare it.
TakeUpstream ==
    /\ upstream < MaxUpstream
    /\ upstream' = upstream + 1
    /\ acked' = acked + 1
    /\ missed' = (missed \/ sender \in {"full", "waiting"})
    /\ UNCHANGED <<sender, sent, event, routerVars, stream, blocks, receiverVars, acks,
                   strayed>>

\* stop may come while a send waits, and does not wake it.
StopRouter ==
    /\ sender \in {"idle", "waiting"} /\ (declared \/ subscribed)
    /\ declared' = FALSE
    /\ subscribed' = FALSE
    /\ UNCHANGED <<sender, path, sent, acked, event, stream, blocks, receiverVars, acks,
                   upstream, strayed, missed>>

-----------------------------------------------------------------------------
(***************************************************************************)
(* The receiver                                                            *)
(***************************************************************************)

\* cleanup in the finally clause: the block is unlinked whether or not it was read
Unlinked(chunk) == IF chunk.local THEN blocks \ {chunk.id} ELSE blocks
NotUnlinked(chunk) == blocks
AfterTaking(chunk) == Unlinked(chunk)

TakeChunk ==
    /\ listening /\ stream # <<>>
    /\ blocks' = AfterTaking(Head(stream))
    /\ stream' = Tail(stream)
    /\ processed' = processed + 1
    /\ acks' = acks \cup {processed + 1}
    /\ UNCHANGED <<senderVars, listening, upstream, strayed, missed>>

\* A frame that cannot be read or deserialised gets no acknowledgement.
RejectFrame ==
    /\ listening /\ stream # <<>>
    /\ blocks' = AfterTaking(Head(stream))
    /\ stream' = Tail(stream)
    /\ UNCHANGED <<senderVars, receiverVars, acks, upstream, strayed, missed>>

StopReceiver ==
    /\ listening
    /\ listening' = FALSE
    /\ UNCHANGED <<senderVars, stream, blocks, processed, acks, upstream, strayed, missed>>

-----------------------------------------------------------------------------
(***************************************************************************)
(* The mesh                                                                *)
(***************************************************************************)

\* also a publication that fails
LoseChunk ==
    /\ stream # <<>>
    /\ strayed' = IF Head(stream).local THEN strayed \cup {Head(stream).id} ELSE strayed
    /\ stream' = Tail(stream)
    /\ UNCHANGED <<senderVars, blocks, receiverVars, acks, upstream, missed>>

LoseAck(seq) ==
    /\ seq \in acks
    /\ acks' = acks \ {seq}
    /\ UNCHANGED <<senderVars, stream, blocks, receiverVars, upstream, strayed, missed>>

StreamInit ==
    /\ sender = "idle" /\ path = "chunk" /\ sent = 0 /\ acked = 0 /\ event = FALSE
    /\ declared = TRUE /\ subscribed = TRUE
    /\ stream = <<>> /\ blocks = {} /\ processed = 0 /\ acks = {}
    /\ listening = TRUE
    /\ upstream = 0 /\ strayed = {} /\ missed = FALSE

StreamNext ==
    \/ \E kind \in {"chunk", "tensor"} : CallSend(kind)
    \/ \E local \in BOOLEAN : SendChunk(local)
    \/ FindFull \/ ClearAndWait \/ Wake \/ StopRouter \/ TakeUpstream
    \/ \E seq \in acks : ReceiveAck(seq) \/ LoseAck(seq)
    \/ TakeChunk \/ RejectFrame \/ StopReceiver \/ LoseChunk

StreamSpec == StreamInit /\ [][StreamNext]_streamVars

-----------------------------------------------------------------------------
\* However chunks and acknowledgements are lost or delayed, no more than a window of
\* chunks is sent beyond what the receiver has taken, plus one for every frame the
\* same router took as a listener.
WindowHolds == sent <= processed + upstream + Window

\* A sender that waits while its window is open has a wake-up pending, unless the
\* window was opened in one of two ways: by an acknowledgement that came after the
\* sender found the window full and before it cleared the event, or by a frame the
\* router took as a listener.
WakeupPending ==
    sender = "waiting" /\ ~WindowFull => event \/ missed

BlocksOf(chunks) == {c.id : c \in {x \in Range(chunks) : x.local}}

\* The blocks that exist are those of the chunks under way, of chunks that were lost
\* and of chunks a stopped router dropped: none is unlinked before its chunk is
\* taken and none outlives it.
BlocksAccounted ==
    blocks = BlocksOf(stream) \cup strayed
=============================================================================
