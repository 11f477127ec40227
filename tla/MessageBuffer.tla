---------------------------- MODULE MessageBuffer ----------------------------
(***************************************************************************)
(* The buffer of a listener (MessageBuffer in qoala/sim/componentprot.py): *)
(* a dictionary from (source pid, destination pid) to a list of messages,  *)
(* here a sequence of its entries in the order in which they were made.    *)
(* A list that has been emptied stays in the dictionary.                   *)
(***************************************************************************)
EXTENDS SequencesExt

EmptyBuffer == <<>>

Keys(buffer) == {entry.key : entry \in Range(buffer)}
MsgsOf(buffer, key) == LET i == SelectInSeq(buffer, LAMBDA entry : entry.key = key)
                       IN  IF i = 0 THEN <<>> ELSE buffer[i].msgs

\* Fault: a message is put in front of those that wait already.
AddMsgInFront(buffer, key, msg) ==
    IF key \notin Keys(buffer) THEN Append(buffer, [key |-> key, msgs |-> <<msg>>])
    ELSE [i \in DOMAIN buffer |-> IF buffer[i].key = key
                                  THEN [buffer[i] EXCEPT !.msgs = <<msg>> \o @] ELSE buffer[i]]

AddMsg(buffer, key, msg) ==
    IF key \notin Keys(buffer) THEN Append(buffer, [key |-> key, msgs |-> <<msg>>])
    ELSE [i \in DOMAIN buffer |-> IF buffer[i].key = key
                                  THEN [buffer[i] EXCEPT !.msgs = Append(@, msg)] ELSE buffer[i]]

GetAll(buffer) == {key \in Keys(buffer) : MsgsOf(buffer, key) # <<>>}
HasAny(buffer) == GetAll(buffer) # {}

\* The list that pop_any takes from: the first that is not empty.
FirstFilled(buffer) == buffer[SelectInSeq(buffer, LAMBDA entry : entry.msgs # <<>>)].key

PopMsg(buffer, key) ==
    [i \in DOMAIN buffer |-> IF buffer[i].key = key
                             THEN [buffer[i] EXCEPT !.msgs = Tail(@)] ELSE buffer[i]]
==============================================================================
