------------------------------ MODULE Namespaces ------------------------------
(***************************************************************************)
(* The namespaces of a device: what the controller has, and the map that   *)
(* NvmeDevice keeps of it (identify_controller, identify_namespace_list,   *)
(* identify_namespace, format_namespace, and the lookups of the copied and *)
(* batched transfers).  The answers of the controller arrive in the device *)
(* object's buffer, which the transfers use as well; except for            *)
(* identify_controller the code does not look at the result of the admin   *)
(* command and decodes whatever the buffer holds.                          *)
(*                                                                         *)
(* The buffer is abstracted to the kind of its contents.                   *)
(***************************************************************************)
EXTENDS Integers, Sequences, FiniteSetsExt

CONSTANTS
  Controllers,  \* devices with an NVMe controller
  Layouts,      \* what a controller may have: sets of id -> [blocks, block_size]
  Words,        \* the words of the controller data, read as namespace ids
  ListLen,      \* ids in a namespace list (1024)
  Format0,      \* device -> block size of its LBA format 0
  MaxRefused,   \* bound: commands the controllers refuse for reasons of their own
  MaxUses       \* bound: operations on devices that are up

BlockSizes == {512, 4096}

\* Few enough namespaces for one list (the code asks for one only), and for
\* the words of the list that are decoded as block sizes to be zero; the words
\* of the controller data are no valid ids.
ASSUME NamespaceAssumption ==
  /\ ListLen \in Nat \ {0} /\ MaxRefused \in Nat /\ MaxUses \in Nat
  /\ Format0 \in [Controllers -> BlockSizes] /\ Words \in Seq(Nat \ {0})
  /\ \A l \in Layouts :
       /\ IsFiniteSet(DOMAIN l) /\ Cardinality(DOMAIN l) <= Min({ListLen, 6})
       /\ DOMAIN l \subseteq Nat \ {0}
       /\ l \in [DOMAIN l -> [blocks : Nat, block_size : BlockSizes]]
       /\ \A k \in DOMAIN Words : Words[k] \notin DOMAIN l

Empty == [id \in {} |-> 0]
Geometry == [blocks : Nat, block_size : BlockSizes \cup {0}]
Garbage == 7777           \* a number of blocks decoded from something else

VARIABLES
  ctrl,         \* device -> the controller's namespaces
  buffer,       \* device -> contents of the buffer
  namespaces,   \* device -> the map of the device object
  stage,        \* device -> progress of bring-up
  todo,         \* device -> ids still to be identified
  doubtful,     \* history: device -> ids whose entry may be wrong
  denied,       \* history: devices that refused a command
  denials, uses \* refused commands and operations so far

nsVars == <<ctrl, buffer, namespaces, stage, todo, doubtful, denied, denials, uses>>

NsInit ==
  /\ ctrl \in [Controllers -> Layouts]
  /\ buffer = [d \in Controllers |-> [kind |-> "zeros"]]
  /\ namespaces = [d \in Controllers |-> Empty]
  /\ stage = [d \in Controllers |-> "none"]
  /\ todo = [d \in Controllers |-> <<>>]
  /\ doubtful = [d \in Controllers |-> {}]
  /\ denied = {} /\ denials = 0 /\ uses = 0

Enter(d, s) == stage' = [stage EXCEPT ![d] = s]
Fill(d, contents) == buffer' = [buffer EXCEPT ![d] = contents]

\* The controller refuses a command.
Refuse(d) == denials < MaxRefused /\ denials' = denials + 1 /\ denied' = denied \cup {d}

\* It was an admin command: the buffer keeps its contents.
Deny(d) == Refuse(d) /\ UNCHANGED buffer

\* NvmeDevice::init has succeeded: a new object, with a buffer of its own.
fresh_device(d) ==
  /\ Enter(d, "controller")
  /\ Fill(d, [kind |-> "zeros"])
  /\ namespaces' = [namespaces EXCEPT ![d] = Empty]
  /\ doubtful' = [doubtful EXCEPT ![d] = {}]
  /\ UNCHANGED <<ctrl, todo, denied, denials, uses>>

\* The answers to the identify commands.
controller_data == [kind |-> "controller"]
namespace_data(d, id) == [kind |-> "namespace", data |-> ctrl[d][id]]

\* identify_controller: the one whose error is passed on.
identify_controller(d) ==
  /\ stage[d] = "controller"
  /\ \/ Fill(d, controller_data) /\ Enter(d, "list") /\ UNCHANGED <<denied, denials>>
     \/ Deny(d) /\ Enter(d, "error")
  /\ UNCHANGED <<ctrl, namespaces, todo, doubtful, uses>>

\* The lists that hold the first of the ids in order, as many as fit: there is
\* one.
ListsOf(ids) ==
  LET len == Min({ListLen, Cardinality(ids)})
  IN  {s \in [1..len -> ids] :
         /\ \A i, j \in 1..len : i < j => s[i] < s[j]
         /\ \A id \in ids : \/ \E i \in 1..len : s[i] = id
                           \/ \A i \in 1..len : s[i] < id}

\* The controller's answer: its ids above base.
\* Faulty variant, for mutation runs: the list starts after namespace 1.
listed_from_one(d) == ListsOf({i \in DOMAIN ctrl[d] : i > 1})
listed(d) == ListsOf({i \in DOMAIN ctrl[d] : i > 0})

\* The words of the buffer up to the first zero.
decode_list(b) == IF b.kind = "list" THEN b.ids ELSE Words

identify_namespace_list(d) ==
  /\ stage[d] = "list"
  /\ \/ /\ \E ids \in listed(d) : Fill(d, [kind |-> "list", ids |-> ids])
        /\ UNCHANGED <<denied, denials, doubtful>>
     \/ /\ Deny(d)
        /\ doubtful' = [doubtful EXCEPT ![d] = DOMAIN ctrl[d]]
  /\ todo' = [todo EXCEPT ![d] = decode_list(buffer'[d])]
  /\ Enter(d, "each")
  /\ UNCHANGED <<ctrl, namespaces, uses>>

\* Faulty variant: the range of the block size is not checked.
decode_namespace_any(b) ==
  IF b.kind = "namespace" THEN {b.data} ELSE {[blocks |-> Garbage, block_size |-> 1]}

\* What the buffer gives when it is read as namespace data: a block size
\* outside 2^9..2^31 is decoded as 0.
decode_namespace(b) ==
  CASE b.kind = "namespace" -> {b.data}
    [] b.kind = "list" -> {[blocks |-> Garbage, block_size |-> 0]}
    [] OTHER -> [blocks : {Garbage}, block_size : BlockSizes \cup {0}]

\* Faulty variant: the entry goes to the wrong place.
remember_first(d, id, data) ==
  namespaces' = [namespaces EXCEPT ![d] =
                   [i \in DOMAIN @ \cup {1} |-> IF i = 1 THEN data ELSE @[i]]]
remember(d, id, data) ==
  namespaces' = [namespaces EXCEPT ![d] =
                   [i \in DOMAIN @ \cup {id} |-> IF i = id THEN data ELSE @[i]]]

identify_namespace(d, id) ==
  /\ \/ /\ id \in DOMAIN ctrl[d]
        /\ Fill(d, namespace_data(d, id))
        /\ doubtful' = [doubtful EXCEPT ![d] = @ \ {id}]
        /\ UNCHANGED <<denied, denials>>
     \/ /\ IF id \in DOMAIN ctrl[d] THEN Deny(d) ELSE UNCHANGED <<buffer, denied, denials>>
        /\ doubtful' = [doubtful EXCEPT ![d] = @ \cup {id}]
  /\ \E data \in decode_namespace(buffer'[d]) : remember(d, id, data)
  /\ UNCHANGED ctrl

\* The loop of init over the list.
identify_next(d) ==
  /\ stage[d] = "each" /\ todo[d] # <<>>
  /\ identify_namespace(d, Head(todo[d]))
  /\ todo' = [todo EXCEPT ![d] = Tail(@)]
  /\ UNCHANGED <<stage, uses>>

identified_all(d) ==
  /\ stage[d] = "each" /\ todo[d] = <<>>
  /\ Enter(d, "ready")
  /\ UNCHANGED <<ctrl, buffer, namespaces, todo, doubtful, denied, denials, uses>>

(***************************************************************************)
(* A device that is up.                                                    *)
(***************************************************************************)
Use(d) ==
  /\ stage[d] = "ready" /\ uses < MaxUses
  /\ uses' = uses + 1
  /\ UNCHANGED todo

identify_again(d) ==
  /\ Use(d)
  /\ \E id \in DOMAIN ctrl[d] : identify_namespace(d, id)
  /\ UNCHANGED stage

\* The namespace gets LBA format 0 and keeps its capacity in bytes.
Formatted(d, data) ==
  [blocks |-> (data.blocks * data.block_size) \div Format0[d], block_size |-> Format0[d]]

\* format_namespace(Some(id)) or, with all ids, format_namespace(None).  The
\* map is left as it is, and so is everything if the command is refused.
format_namespace(d, ids) ==
  /\ Use(d)
  /\ \/ /\ Cardinality(ids) = 1 /\ ~(ids \subseteq DOMAIN namespaces[d])
        /\ Enter(d, "panicked")
        /\ UNCHANGED <<ctrl, buffer, doubtful, denied, denials>>
     \/ /\ ids \subseteq DOMAIN namespaces[d] \/ ids = DOMAIN ctrl[d]
        /\ \/ /\ ctrl' = [ctrl EXCEPT ![d] = [id \in DOMAIN @ |->
                            IF id \in ids THEN Formatted(d, @[id]) ELSE @[id]]]
              /\ doubtful' = [doubtful EXCEPT ![d] = @ \cup
                                {id \in ids : ctrl[d][id].block_size # Format0[d]}]
              /\ UNCHANGED <<buffer, denied, denials>>
           \/ Deny(d) /\ UNCHANGED <<ctrl, doubtful>>
        /\ UNCHANGED stage
  /\ UNCHANGED namespaces

\* The namespace has larger blocks than the map says.
Outgrown(d, id) == namespaces[d][id].block_size < ctrl[d][id].block_size

\* A copied or batched transfer on namespace id, within the namespace as the
\* map describes it.  The look-up is unwrapped and the block size divided by;
\* the data goes through the buffer; the completion is unwrapped.  If the
\* blocks have outgrown the map, the command asks for more than there is, of
\* the namespace or of the pages it names, and may fail for that.
transfer(d, id) ==
  /\ Use(d)
  /\ \/ /\ id \in DOMAIN namespaces[d] /\ namespaces[d][id].block_size # 0
        /\ Fill(d, [kind |-> "user"])
        /\ \/ UNCHANGED <<stage, denied, denials>>
           \/ Enter(d, "panicked") /\ Refuse(d)
           \/ Enter(d, "panicked") /\ Outgrown(d, id) /\ UNCHANGED <<denied, denials>>
     \/ /\ id \in DOMAIN namespaces[d] => namespaces[d][id].block_size = 0
        /\ Enter(d, "panicked") /\ UNCHANGED <<buffer, denied, denials>>
  /\ UNCHANGED <<ctrl, namespaces, doubtful>>

NsBringUp(d) ==
  identify_controller(d) \/ identify_namespace_list(d) \/ identify_next(d) \/ identified_all(d)

NsUse(d) ==
  \/ identify_again(d)
  \/ \E ids \in {{id} : id \in DOMAIN ctrl[d]} \cup {DOMAIN ctrl[d]} : format_namespace(d, ids)
  \/ \E id \in DOMAIN ctrl[d] : transfer(d, id)
-----------------------------------------------------------------------------
NsTypeOK ==
  \A d \in Controllers :
    /\ \A id \in DOMAIN namespaces[d] : namespaces[d][id] \in Geometry
    /\ stage[d] \in {"none", "controller", "list", "each", "ready", "panicked", "error"}
    /\ denials \in 0..MaxRefused /\ uses \in 0..MaxUses

\* On a device that is up the map says of every namespace what the controller
\* says, except of those whose identification was refused or that were
\* formatted since; and it has further entries only if the list was refused.
NamespacesExact ==
  \A d \in Controllers : stage[d] = "ready" =>
    /\ \A id \in DOMAIN ctrl[d] \ doubtful[d] :
         id \in DOMAIN namespaces[d] /\ namespaces[d][id] = ctrl[d][id]
    /\ DOMAIN namespaces[d] \subseteq DOMAIN ctrl[d] \cup doubtful[d]

\* An operation on an existing namespace panics only if the controller refused
\* a command for reasons of its own, or if a format has given a namespace larger
\* blocks than the map says.  Without a refusal every namespace has an entry with
\* a block size, and a format to smaller blocks, which leaves the map stale as
\* well, makes no operation panic.
PanicsExplained ==
  \A d \in Controllers : stage[d] = "panicked" =>
    d \in denied \/ \E id \in DOMAIN ctrl[d] \cap DOMAIN namespaces[d] : Outgrown(d, id)
==============================================================================
