------------------------------- MODULE MCParts -------------------------------
(***************************************************************************)
(* The parts of the program that share nothing with each other, in one     *)
(* run: a behaviour is one of the message server, of the senders of        *)
(* datagrams, of the alarms of a host, of the test heap, of the counted    *)
(* blocks, of a dictionary, of a chain, of trees, or of a conversion.      *)
(***************************************************************************)
EXTENDS MessageServer, SendMessage, Alarms, Heap, SmartPointer, Dictionary,
        Chains, Tree, Transcode

VARIABLE part     \* which one the behaviour is of

router == <<serverVars, sendVars, alarmVars>>
library == <<heapVars, spVars, dictVars, chainVars, treeVars, textVars>>
vars == <<part, router, library>>

(* Parts that take no steps have one initial state. *)
Init ==
  /\ part \in {"server", "send", "alarms",
               "heap", "counted", "dictionary", "chain", "tree", "text"}
  /\ ServerInit /\ SendInit /\ AlarmsInit
  /\ HeapInit /\ SPInit /\ DictInit /\ ChainInit /\ TreeInit /\ TextInit
  /\ part # "server" => buffersize = Max(BufferSizes)
  /\ part # "dictionary" => ~testmode
  /\ part # "chain" => kind = "list"
  /\ part # "text" => from = "utf16le" /\ tolan = "utf16be"
                      /\ text = <<CHOOSE c \in CodePoints : TRUE>>

Next ==
  \/ part = "server" /\ ServerNext /\ UNCHANGED <<part, sendVars, alarmVars, library>>
  \/ part = "send" /\ SendNext /\ UNCHANGED <<part, serverVars, alarmVars, library>>
  \/ part = "alarms" /\ AlarmsNext /\ UNCHANGED <<part, serverVars, sendVars, library>>
  \/ /\ part = "heap" /\ HeapNext
     /\ UNCHANGED <<part, router, spVars, dictVars, chainVars, treeVars, textVars>>
  \/ /\ part = "counted" /\ SPNext
     /\ UNCHANGED <<part, router, heapVars, dictVars, chainVars, treeVars, textVars>>
  \/ /\ part = "dictionary" /\ DictNext
     /\ UNCHANGED <<part, router, heapVars, spVars, chainVars, treeVars, textVars>>
  \/ /\ part = "chain" /\ ChainNext
     /\ UNCHANGED <<part, router, heapVars, spVars, dictVars, treeVars, textVars>>
  \/ /\ part = "tree" /\ TreeNext
     /\ UNCHANGED <<part, router, heapVars, spVars, dictVars, chainVars, textVars>>
  \/ /\ part = "text" /\ TextNext
     /\ UNCHANGED <<part, router, heapVars, spVars, dictVars, chainVars, treeVars>>

Spec == Init /\ [][Next]_vars

(* Two hosts, with parameters for one byte and for two. *)
MCParameterSizes == <<1, 2>>
=============================================================================
