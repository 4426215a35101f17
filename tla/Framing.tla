------------------------------- MODULE Framing -------------------------------
(***************************************************************************)
(* How a session cuts the bytes it receives into messages: m_recvBuf and   *)
(* ParseData of asUvSession and asAsioSession, which are the same.  The    *)
(* peer's stream arrives in pieces of any size, never more than fits the   *)
(* buffer.  A message is its head, three units (flag, length with the      *)
(* head, identifier), and a body.  A peer may send what is no message: a   *)
(* wrong flag, a length that is too large, too small or not its own.  A    *)
(* unit or two of that kind count to what the peer sends next, so that     *)
(* everything it sends is as long as a head.                               *)
(***************************************************************************)
EXTENDS Buffer

CONSTANTS FrameRooms,  \* the sizes of a receive buffer
          MaxLen,      \* AS_NET_MAX_LEN
          Frames,      \* what a peer may send
          MaxFrames    \* bound: what a peer sends

VARIABLES
  frameNet,   \* "uv" or "asio": whose session it is
  frameSess,  \* "open", "closed"
  recvBuf,    \* m_recvBuf
  stream,     \* what is under way from the peer
  sent,       \* history: what the peer sent
  got,        \* history: the messages OnNewMessage was called with
  flooded     \* history: more than MaxLen lay in the buffer at once

frameVars == <<frameNet, frameSess, recvBuf, stream, sent, got, flooded>>

HeadSize == 3
Flag == 9                \* AS_NET_TCP_FLAG

ASSUME FramingAssumption ==
  /\ FrameRooms \subseteq Nat \ {0}
  /\ MaxLen \in Nat /\ MaxLen >= HeadSize
  /\ \A f \in Frames : f \in Seq(Int) /\ Len(f) >= HeadSize

FrameInit ==
  /\ frameNet \in {"uv", "asio"} /\ frameSess = "open"
  /\ \E room \in FrameRooms : recvBuf = InitBuffer(NewBuffer, room)
  /\ stream = <<>> /\ sent = <<>> /\ got = <<>> /\ flooded = FALSE

PeerSends(f) ==
  /\ Len(sent) < MaxFrames
  /\ stream' = stream \o f
  /\ sent' = Append(sent, f)
  /\ UNCHANGED <<frameNet, frameSess, recvBuf, got, flooded>>

-----------------------------------------------------------------------------
BadHead(m, at) ==
  m[at + 1] # Flag \/ m[at + 2] > MaxLen \/ m[at + 2] < HeadSize

Broken == -1

\* Where the loop of ParseData stands after each turn: the place behind the
\* last whole message, or Broken: behind it lies more than MaxLen, or a head
\* that cannot be one.
Turns(b) ==
  LET At[n \in 0..b.size] ==
        IF n = 0 THEN 0
        ELSE LET at == At[n - 1]
             IN  IF at = Broken \/ b.size - at < HeadSize THEN at
                 ELSE IF b.size - at > MaxLen \/ BadHead(b.mem, at) THEN Broken
                 ELSE IF b.size - at < b.mem[at + 2] THEN at
                 ELSE at + b.mem[at + 2]
  IN  At

\* The turns that hand a message to OnNewMessage, which are the first ones,
\* and the messages in their order.
Handing(b) == {n \in 1..b.size : Turns(b)[n] > Turns(b)[n - 1]}

Parsed(b) ==
  [i \in 1..Cardinality(Handing(b)) |->
     SubSeq(b.mem, Turns(b)[i - 1] + 1, Turns(b)[i])]

\* A mutant: whatever follows the last whole message is dropped.
ParseDataForgetsRest(b) == ResetBuffer(b)

\* A broken loop drops everything, the bytes behind a bad head too.
ParseData(b) ==
  IF Turns(b)[b.size] = Broken THEN ResetBuffer(b)
  ELSE MoveDataForWard(b, Turns(b)[b.size])

\* The read callback: AddBufferSize, OnReceiveData.
OnReceive(n) ==
  LET filled == AddSize([recvBuf EXCEPT !.mem =
                  Over(@, recvBuf.size, SubSeq(stream, 1, n))], n)
  IN  /\ frameSess = "open"
      /\ n \in 1..Len(stream) /\ n <= RemainSize(recvBuf)
      /\ stream' = SubSeq(stream, n + 1, Len(stream))
      /\ got' = got \o Parsed(filled)
      /\ recvBuf' = ParseData(filled)
      /\ flooded' = (flooded \/ filled.size > MaxLen)
      /\ UNCHANGED <<frameNet, frameSess, sent>>

\* No room is left: uv_read_cb gets an error and closes the session.  asio
\* completes a read of no bytes at once and the session starts the next, for
\* ever: nothing changes.
OnFull ==
  /\ frameSess = "open" /\ frameNet = "uv" /\ IsFull(recvBuf)
  /\ frameSess' = "closed"
  /\ UNCHANGED <<frameNet, recvBuf, stream, sent, got, flooded>>

FrameNext ==
  \/ \E f \in Frames : PeerSends(f)
  \/ \E n \in 1..MaxSize(recvBuf) : OnReceive(n)
  \/ OnFull

FrameSpec == FrameInit /\ [][FrameNext]_frameVars

-----------------------------------------------------------------------------
\* Of a peer that keeps to the protocol, the network has passed on exactly the
\* messages that arrived whole, each once, in order and unchanged, and holds
\* the beginning of the next one, however the stream was cut: a head may
\* arrive in pieces and one read may bring several messages and a part of
\* another.  Of any peer this is so up to the first thing that is no message.
\* It ends, for any peer, when more than MaxLen lies in the buffer at once,
\* which is then dropped; only a buffer larger than MaxLen can come to that.
\* The session of a peer that keeps to the protocol is only given up when its
\* buffer cannot hold a message.
\* About: ParseData, MoveDataForWard, AddSize, and the read callback.
FramesIntact ==
  LET Message(f) == ~BadHead(f, 0) /\ f[2] = Len(f)
      Good(k) == \A i \in 1..k : Message(sent[i])
      Start(k) == Len(FlattenSeq(SubSeq(sent, 1, k)))
      arrived == Start(Len(sent)) - Len(stream)
      whole == {k \in 0..Len(sent) : Start(k) <= arrived}
      k == CHOOSE k \in whole : \A j \in whole : j <= k
  IN  /\ ~flooded =>
           /\ Good(k) /\ (k < Len(sent) => \/ arrived < Start(k) + HeadSize
                                         \/ Good(k + 1))
                => /\ got = SubSeq(sent, 1, k)
                   /\ Contents(recvBuf) =
                        SubSeq(FlattenSeq(sent), Start(k) + 1, arrived)
           /\ \A j \in whole : Good(j) => IsPrefix(SubSeq(sent, 1, j), got)
      /\ flooded => MaxSize(recvBuf) > MaxLen
      /\ frameSess = "closed" /\ Good(Len(sent)) =>
           \E f \in ToSet(sent) : Len(f) > MaxSize(recvBuf)
=============================================================================
