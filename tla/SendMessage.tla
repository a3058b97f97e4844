----------------------------- MODULE SendMessage -----------------------------
(***************************************************************************)
(* NetGroup_router_send_message of src/NetGroup.c: any thread sends a      *)
(* message to an address.  There is one socket, one buffer and one mutex   *)
(* per address, in a list that never shrinks while the router lives.       *)
(*                                                                         *)
(* The lengths are unsigned, so a sendto that fails returns 2^32 - 1 and   *)
(* the loop goes on with sums that wrap.  Word stands for 2^32.            *)
(***************************************************************************)
EXTENDS Integers, Sequences, FiniteSets

CONSTANTS
  Callers,       \* threads that send
  Addresses,     \* ip and port
  Encoded,       \* the lengths that the encoder returns
  Word,          \* 2^32
  MaxDatagram,   \* the kernel sends no longer one
  MaxMessages    \* bound: calls per thread

ASSUME CallersAssumption == IsFiniteSet(Callers)
ASSUME WordAssumption ==
  /\ Word \in Nat \ {0} /\ Word % 2 = 0 /\ MaxDatagram \in 0 .. Word - 1 /\ MaxMessages \in Nat
  /\ Encoded \subseteq 0 .. Word - 1

VARIABLES
  _message_tos,     \* the addresses of the list's entries
  to_cs,            \* per entry: who holds its mutex (a set of at most one)
  _messagebuffer,   \* ... and the message last encoded into its buffer
  at,               \* where a thread is: "idle", "lock", "encode", "send", "unlock"
  to,               \* ... the entry it has found
  sendlen_s, sendlen, sendedlen,
  result,           \* ... what its last call has returned
  made,             \* ... how many calls it has made
  failed,           \* history: how often has sendto failed in this call (Word: or more)?
  wire              \* history: what was sent, <<address, message, first byte, length>>

locals == <<sendlen_s, sendlen, sendedlen>>
sendVars == <<_message_tos, to_cs, _messagebuffer, at, to, locals, result, made, failed, wire>>

SendInit ==
  /\ _message_tos = << >> /\ to_cs = << >> /\ _messagebuffer = << >>
  /\ at = [t \in Callers |-> "idle"] /\ to = [t \in Callers |-> 0]
  /\ sendlen_s = [t \in Callers |-> 0] /\ sendlen = [t \in Callers |-> 0]
  /\ sendedlen = [t \in Callers |-> 0]
  /\ result = [t \in Callers |-> 1] /\ made = [t \in Callers |-> 0]
  /\ failed = [t \in Callers |-> 0] /\ wire = {}

(* Under _to_cs: the entry of the address is found or appended. *)
Known(address) == {i \in DOMAIN _message_tos : _message_tos[i] = address}

Find(t, address) ==
  /\ at[t] = "idle" /\ made[t] < MaxMessages
  /\ made' = [made EXCEPT ![t] = @ + 1] /\ failed' = [failed EXCEPT ![t] = 0]
  /\ at' = [at EXCEPT ![t] = "lock"]
  /\ IF Known(address) # {}
     THEN /\ to' = [to EXCEPT ![t] = CHOOSE i \in Known(address) : TRUE]
          /\ UNCHANGED <<_message_tos, to_cs, _messagebuffer>>
     ELSE /\ _message_tos' = Append(_message_tos, address)
          /\ to_cs' = Append(to_cs, {}) /\ _messagebuffer' = Append(_messagebuffer, << >>)
          /\ to' = [to EXCEPT ![t] = Len(_message_tos) + 1]
  /\ UNCHANGED <<locals, result, wire>>

(* No socket or no mutex for a new entry. *)
FindFails(t, address) ==
  /\ at[t] = "idle" /\ made[t] < MaxMessages /\ Known(address) = {}
  /\ made' = [made EXCEPT ![t] = @ + 1] /\ result' = [result EXCEPT ![t] = -1]
  /\ UNCHANGED <<_message_tos, to_cs, _messagebuffer, at, to, locals, failed, wire>>

WrongMayLock(i) == TRUE

MayLock(i) == to_cs[i] = {}

Lock(t) ==
  /\ at[t] = "lock" /\ MayLock(to[t])
  /\ to_cs' = [to_cs EXCEPT ![to[t]] = @ \cup {t}] /\ at' = [at EXCEPT ![t] = "encode"]
  /\ UNCHANGED <<_message_tos, _messagebuffer, to, locals, result, made, failed, wire>>

Encode(t, length) ==
  /\ at[t] = "encode" /\ at' = [at EXCEPT ![t] = "send"]
  /\ _messagebuffer' = [_messagebuffer EXCEPT ![to[t]] = <<t, made[t]>>]
  /\ sendlen_s' = [sendlen_s EXCEPT ![t] = length] /\ sendlen' = [sendlen EXCEPT ![t] = length]
  /\ sendedlen' = [sendedlen EXCEPT ![t] = 0]
  /\ UNCHANGED <<_message_tos, to_cs, to, result, made, failed, wire>>

(* One sendto, which asks for the difference of the two lengths.  After a  *)
(* failure it may read what lies next to the buffer.  The loop ends when   *)
(* nothing is left, or when an empty datagram was sent.                    *)
Asked(t) == (sendlen[t] - sendedlen[t] + Word) % Word

Sum(a, b) == (a + b) % Word

SendTo(t) ==
  /\ at[t] = "send" /\ sendlen[t] > 0 /\ Asked(t) <= MaxDatagram
  /\ wire' = wire \cup {<<_message_tos[to[t]], _messagebuffer[to[t]], sendedlen[t], Asked(t)>>}
  /\ sendedlen' = [sendedlen EXCEPT ![t] = Sum(@, Asked(t))]
  /\ sendlen' = [sendlen EXCEPT ![t] = (@ - Asked(t) + Word) % Word]
  /\ at' = IF Asked(t) = 0 THEN [at EXCEPT ![t] = "unlock"] ELSE at
  /\ UNCHANGED <<_message_tos, to_cs, _messagebuffer, to, sendlen_s, result, made, failed>>

(* Any sendto can fail, an empty one too; the result, 2^32 - 1, is added.  *)
SendToFails(t) ==
  /\ at[t] = "send" /\ sendlen[t] > 0
  /\ failed' = [failed EXCEPT ![t] = IF @ < Word THEN @ + 1 ELSE @]
  /\ sendedlen' = [sendedlen EXCEPT ![t] = Sum(@, Word - 1)]
  /\ sendlen' = [sendlen EXCEPT ![t] = Sum(@, 1)]
  /\ UNCHANGED <<_message_tos, to_cs, _messagebuffer, at, to, sendlen_s, result, made, wire>>

Success(t) == sendlen_s[t] = sendedlen[t]

Unlock(t) ==
  /\ at[t] = "unlock" \/ (at[t] = "send" /\ sendlen[t] = 0)
  /\ at' = [at EXCEPT ![t] = "idle"]
  /\ to_cs' = [to_cs EXCEPT ![to[t]] = @ \ {t}]
  /\ result' = [result EXCEPT ![t] = IF Success(t) THEN 1 ELSE 0]
  /\ UNCHANGED <<_message_tos, _messagebuffer, to, locals, made, failed, wire>>

SendNext ==
  \E t \in Callers :
    \/ \E address \in Addresses : Find(t, address) \/ FindFails(t, address)
    \/ Lock(t)
    \/ \E length \in Encoded : Encode(t, length)
    \/ SendTo(t) \/ SendToFails(t) \/ Unlock(t)

SendSpec == SendInit /\ [][SendNext]_sendVars
-----------------------------------------------------------------------------
(* Properties *)

(* A datagram of the thread's last message, from byte `first` on. *)
OwnPart(t, first, length) == <<_message_tos[to[t]], <<t, made[t]>>, first, length>>

(* Has the call sent bytes that are not its message's? *)
Strayed(t) ==
  \E d \in wire : d[1] = _message_tos[to[t]] /\ d[2] = <<t, made[t]>>
                   /\ d[4] > 0 /\ d[3] + d[4] > sendlen_s[t]

(* What a call returns tells what it has done, as far as it can.  If it    *)
(* returns 1 and no sendto has failed, its own message was sent, whole and *)
(* to its address: the list of addresses and the buffer that all senders   *)
(* to one address share do not mix up calls.  If it returns 1 although     *)
(* sendto has failed, then it has sent bytes that are not of its message,  *)
(* or has failed so often that the sums have wrapped to the right result.  *)
(* If it returns 0, sendto has failed, and what ended the loop is an empty *)
(* datagram, after a failure of each second byte of the word that the      *)
(* message leaves free, or after bytes not of the message.                 *)
ResultTells ==
  \A t \in Callers : at[t] = "idle" /\ made[t] > 0 =>
    /\ result[t] = 1 /\ sendlen_s[t] > 0 =>
         \/ failed[t] = 0 /\ OwnPart(t, 0, sendlen_s[t]) \in wire
         \/ failed[t] > 0 /\ (Strayed(t) \/ failed[t] >= Word - sendlen_s[t])
    /\ result[t] = 0 =>
         /\ failed[t] > 0 /\ sendlen_s[t] % 2 = 0 /\ OwnPart(t, sendedlen[t], 0) \in wire
         /\ Strayed(t) \/ 2 * failed[t] >= Word - sendlen_s[t]
=============================================================================
