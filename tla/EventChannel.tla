---------------------------- MODULE EventChannel ----------------------------
(***************************************************************************)
(* What the sensors proxy promises of the events that sub-HALs post: one   *)
(* channel from all of them to the framework.  Events of a batch are       *)
(* accepted when it is posted, in order and behind those that are on their *)
(* way, or never; they are read in that order, each at most once; and a    *)
(* framework that does not read loses a run of at most QueueSize of them   *)
(* at a time.  HalProxyEvents, with its two queues and two writers,        *)
(* implements it.                                                          *)
(***************************************************************************)
EXTENDS Naturals, Sequences

CONSTANT QueueSize

VARIABLES
    channel,    \* accepted events on their way, oldest first
    posted      \* number of the last event posted

ChannelInit == channel = <<>> /\ posted = 0

Extends(s, t) == Len(s) <= Len(t) /\ SubSeq(t, 1, Len(s)) = s

Post ==
    /\ posted' >= posted
    /\ Extends(channel, channel')
    /\ \A i \in Len(channel) + 1 .. Len(channel') :
         /\ channel'[i].id \in posted + 1 .. posted'
         /\ i > Len(channel) + 1 => channel'[i - 1].id < channel'[i].id

Read ==
    /\ channel # <<>>
    /\ channel' = Tail(channel)
    /\ UNCHANGED posted

Lose ==
    /\ \E first \in 1 .. Len(channel), n \in 1 .. QueueSize :
         /\ first + n <= Len(channel) + 1
         /\ channel' = SubSeq(channel, 1, first - 1) \o SubSeq(channel, first + n, Len(channel))
    /\ UNCHANGED posted

ChannelNext == Post \/ Read \/ Lose

ChannelSpec == ChannelInit /\ [][ChannelNext]_<<channel, posted>>

=============================================================================
