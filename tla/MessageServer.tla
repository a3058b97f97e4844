---------------------------- MODULE MessageServer ----------------------------
(***************************************************************************)
(* The message server of src/NetGroup.c: a thread that appends datagrams   *)
(* to a buffer, shows the buffer to the user's decoder, sends what the     *)
(* decoder made of it to the hosts that it marked, and moves what the      *)
(* decoder left over to the front of the buffer.  A byte is the number of  *)
(* its arrival.  What happens in the queues of the hosts is in Hosts.      *)
(***************************************************************************)
EXTENDS Integers, Sequences, SequencesExt, FiniteSets, FiniteSetsExt

CONSTANTS
  BufferSizes,     \* values of buffersize
  ParameterSizes,  \* per host: WQ_parameter_size - sizeof(struct default_par)
  DatagramSizes,   \* the lengths of datagrams
  OutLengths,      \* what the decoder stores in *outlen
  MaxDatagrams     \* bound

ASSUME SizesAssumption ==
  /\ BufferSizes \subseteq Nat \ {0} /\ DatagramSizes \subseteq Nat
  /\ ParameterSizes \in Seq(Nat) /\ OutLengths \subseteq Nat /\ MaxDatagrams \in Nat

Receivers == DOMAIN ParameterSizes

VARIABLES
  buffersize,   \* message_server.buffersize
  pbuffer,      \* the first cursor bytes of message_server.pbuffer
  _bcast,       \* _cast_indexer: 0, or (history) the datagram that marked the host
  serving,      \* has the thread not left its loop?
  told,         \* history: what length the decoder was last told,
  decoder_res,  \* ... and what it returned
  outlens,      \* ... what it stored in *outlen for each datagram,
  marked,       \* ... and which hosts it marked
  sent,         \* ... the messages sent, <<host, datagram, datagram of the mark>>
  mixed,        \* ... the positions of pbuffer whose byte may be a later one,
                \*     since the areas of a copy have overlapped
  arrivals      \* ... how many bytes recvfrom has put into the buffer

stream == <<told, decoder_res, outlens, marked, mixed, arrivals>>
serverVars == <<buffersize, pbuffer, _bcast, serving, sent, stream>>

cursor == Len(pbuffer)

ServerInit ==
  /\ buffersize \in BufferSizes /\ pbuffer = << >>
  /\ _bcast = [h \in Receivers |-> 0] /\ serving = TRUE
  /\ told = 0 /\ decoder_res = 0 /\ outlens = << >> /\ marked = << >>
  /\ sent = {} /\ mixed = {} /\ arrivals = 0

(* The first half of the buffer goes when it is full; of an odd number of  *)
(* bytes, the last one too.                                                *)
Half == buffersize \div 2
WrongShift(bytes) == IF Len(bytes) >= buffersize THEN SubSeq(bytes, 1, Half) ELSE bytes

Shift(bytes) == IF Len(bytes) >= buffersize THEN SubSeq(bytes, Half + 1, 2 * Half) ELSE bytes

(* What copying all that follows the first res bytes to the front may      *)
(* give.  The areas overlap if more stays than goes; memcpy may then read  *)
(* a byte where it has already put a later one, any number of times over.  *)
Copies(bytes, res) ==
  LET rest == SubSeq(bytes, res + 1, Len(bytes))
  IN IF res = 0 \/ 2 * res >= Len(bytes) THEN {rest}
     ELSE {s \in [DOMAIN rest -> Range(rest)] :
             \A i \in DOMAIN rest : \E k \in 1 .. Len(bytes) :
               i + k * res <= Len(bytes) /\ s[i] = bytes[i + k * res]}

(* The loop over the hosts: who is marked and can hold the message gets it *)
(* and no mark remains.  Without a message the marks are not looked at.    *)
WrongUnmark(marks, out) == marks

Unmark(marks, out) == IF out > 0 THEN [h \in Receivers |-> 0] ELSE marks

Casts(marks, out) ==
  IF out = 0 THEN {} ELSE {h \in Receivers : marks[h] > 0 /\ out <= ParameterSizes[h]}

(* The decoder is told the length of this datagram, but the buffer begins  *)
(* with what earlier ones have left.                                       *)
WrongTold(nread) == cursor + nread

Told(nread) == nread

(* One turn of the loop.  The decoder may return any number: all the bytes *)
(* go if it is the cursor or more.  It may set marks, but clears none.     *)
Datagram(n, res, marks, out) ==
  LET number == Len(marked) + 1
      nread == Min({n, buffersize - cursor})
      bytes == pbuffer \o [i \in 1 .. nread |-> arrivals + i]
      marking == [h \in Receivers |-> IF h \in marks THEN number ELSE _bcast[h]]
      moved == IF res = 0 /\ Len(bytes) = buffersize THEN Half ELSE res
  IN /\ serving /\ number <= MaxDatagrams /\ n > 0
     /\ \E rest \in Copies(bytes, res) : pbuffer' = Shift(rest)
     /\ mixed' = {i \in DOMAIN pbuffer' : \/ i + moved \in mixed
                                         \/ (res > 0 /\ i + 2 * res <= Len(bytes))}
     /\ sent' = sent \cup {<<h, number, marking[h]>> : h \in Casts(marking, out)}
     /\ _bcast' = Unmark(marking, out)
     /\ told' = Told(nread) /\ decoder_res' = res
     /\ outlens' = Append(outlens, out) /\ marked' = Append(marked, marks)
     /\ arrivals' = arrivals + nread
     /\ UNCHANGED <<buffersize, serving>>

(* The loop ends when the pipe can be read, when select or recvfrom fails, *)
(* and when an empty datagram arrives.                                     *)
Leave ==
  /\ serving /\ serving' = FALSE
  /\ UNCHANGED <<buffersize, pbuffer, _bcast, sent, stream>>

ServerNext ==
  \/ \E n \in DatagramSizes, res \in 0 .. buffersize + 1,
        marks \in SUBSET Receivers, out \in OutLengths : Datagram(n, res, marks, out)
  \/ Leave

ServerSpec == ServerInit /\ [][ServerNext]_serverVars
-----------------------------------------------------------------------------
(* Properties *)

(* The buffer always has room for the next datagram, since recvfrom with   *)
(* no room would end the server, and holds the newest bytes in the order   *)
(* of their arrival, whatever the decoder returns; but for an odd size,    *)
(* halving loses the newest byte, after which one byte may be missing, and *)
(* where the areas of a copy have overlapped, a later byte may be in the   *)
(* place of the right one, but never one that should have gone.            *)
BufferHoldsNewest ==
  /\ cursor < buffersize
  /\ \E before \in 0 .. Half :      \* the bytes before the missing one
       /\ buffersize % 2 = 0 => before = 0
       /\ \A i \in 1 .. cursor :
            LET due == arrivals - cursor + i - (IF i <= before THEN 1 ELSE 0)
            IN pbuffer[i] \in due .. arrivals /\ (i \notin mixed => pbuffer[i] = due)

(* A message goes to the hosts that the decoder has marked for its         *)
(* datagram and that can hold it, and to others only because the decoder   *)
(* had marked them for an earlier datagram without giving a message.       *)
CastsFollowMarks ==
  /\ \A c \in sent : c[3] = c[2] \/ outlens[c[3]] = 0
  /\ \A d \in DOMAIN marked : \A h \in marked[d] :
       outlens[d] \in 1 .. ParameterSizes[h] => <<h, d, d>> \in sent
  /\ \A c \in sent : outlens[c[2]] <= ParameterSizes[c[1]]

(* A decoder that returns at most the length it was told never catches up: *)
(* what it has once left over delays all later data by as many bytes, till *)
(* the buffer is full and its first half, or the end of a datagram, is     *)
(* lost.                                                                   *)
LeftOverNeverShrinks ==
  [][marked' # marked /\ decoder_res' <= told'
       => \/ Len(pbuffer') >= cursor
          \/ decoder_res' = 0 /\ cursor + told' = buffersize]_serverVars
=============================================================================
