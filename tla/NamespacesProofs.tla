--------------------------- MODULE NamespacesProofs ---------------------------
(***************************************************************************)
(* What the operations of Namespaces preserve, for every number of devices *)
(* and namespaces and every refusal.  The specification they belong to is  *)
(* Driver's; the theorems are in DriverProofs.                             *)
(***************************************************************************)
EXTENDS Namespaces, FiniteSetTheorems, TLAPS

\* Ids that init has still to identify.
Pending(d) == {todo[d][i] : i \in 1..Len(todo[d])}

\* The controller's namespaces, and what its answers leave in the buffer.
CtrlInv(d) ==
  /\ IsFiniteSet(DOMAIN ctrl[d]) /\ Cardinality(DOMAIN ctrl[d]) <= ListLen
  /\ DOMAIN ctrl[d] \subseteq Nat \ {0}
  /\ ctrl[d] \in [DOMAIN ctrl[d] -> [blocks : Nat, block_size : BlockSizes]]
  /\ todo[d] \in Seq(Nat \ {0})
  /\ buffer[d].kind = "namespace" => buffer[d].data \in Geometry
  /\ buffer[d].kind = "list" => buffer[d].ids \in Seq(Nat \ {0})

\* The map of the device object is well formed.
MapInv(d) ==
  /\ \A id \in DOMAIN namespaces[d] : namespaces[d][id] \in Geometry
  /\ stage[d] \in {"none", "controller", "list", "each", "ready", "panicked", "error"}
  /\ stage[d] \in {"controller", "list"} => namespaces[d] = Empty /\ doubtful[d] = {}
  /\ stage[d] = "ready" => todo[d] = <<>>

\* From the list on: what is neither identified nor doubtful is still to come.
ExactInv(d) ==
  stage[d] \in {"each", "ready"} =>
    /\ \A id \in DOMAIN ctrl[d] \ doubtful[d] :
         id \in Pending(d) \/ (id \in DOMAIN namespaces[d] /\ namespaces[d][id] = ctrl[d][id])
    /\ DOMAIN namespaces[d] \subseteq DOMAIN ctrl[d] \cup doubtful[d]

\* As long as the controller refuses nothing, every namespace gets an entry that
\* transfers can use.
CleanInv(d) ==
  d \notin denied =>
    /\ stage[d] = "panicked" =>
         \E id \in DOMAIN ctrl[d] \cap DOMAIN namespaces[d] : Outgrown(d, id)
    /\ stage[d] \in {"each", "ready"} =>
         /\ Pending(d) \subseteq DOMAIN ctrl[d]
         /\ DOMAIN ctrl[d] \subseteq DOMAIN namespaces[d] \cup Pending(d)
         /\ \A id \in DOMAIN namespaces[d] : namespaces[d][id].block_size \in BlockSizes

DeviceNsInv(d) == CtrlInv(d) /\ MapInv(d) /\ ExactInv(d) /\ CleanInv(d)

\* The inductive invariant of the namespaces.
NsInv ==
  /\ DOMAIN ctrl = Controllers /\ DOMAIN buffer = Controllers
  /\ DOMAIN namespaces = Controllers /\ DOMAIN stage = Controllers
  /\ DOMAIN todo = Controllers /\ DOMAIN doubtful = Controllers
  /\ denials \in 0..MaxRefused /\ uses \in 0..MaxUses
  /\ \A d \in Controllers : DeviceNsInv(d)
-----------------------------------------------------------------------------
\* The controller's list has every id: ascending lists as long as the set of ids
\* leave none out.
LEMMA ListComplete ==
  ASSUME NEW d \in Controllers, CtrlInv(d), NEW s \in listed(d)
  PROVE  s \in Seq(Nat \ {0}) /\ {s[i] : i \in 1..Len(s)} = DOMAIN ctrl[d]
<1> DEFINE ids == {i \in DOMAIN ctrl[d] : i > 0}
<1> DEFINE len == Min({ListLen, Cardinality(ids)})
<1>1. ids = DOMAIN ctrl[d]
  BY DEF CtrlInv
<1>2. len = Cardinality(ids) /\ len \in Nat
  <2>1. Cardinality(ids) \in Nat /\ ListLen \in Nat /\ Cardinality(ids) <= ListLen
    BY <1>1, FS_CardinalityType, NamespaceAssumption DEF CtrlInv
  <2> HIDE DEF ids
  <2> QED BY <2>1 DEF Min
<1>3. s \in [1..len -> ids] /\ \A i, j \in 1..len : i < j => s[i] < s[j]
  BY DEF listed, ListsOf
<1>4. s \in Injection(1..len, ids)
  <2>1. \A i \in 1..len : s[i] \in Nat
    BY <1>1, <1>3 DEF CtrlInv
  <2>2. ASSUME NEW i \in 1..len, NEW j \in 1..len, s[i] = s[j] PROVE i = j
    <3> HIDE DEF len, ids
    <3>1. ~(i < j) /\ ~(j < i)
      BY <1>3, <2>1, <2>2
    <3> QED BY <1>2, <3>1
  <2> QED BY <1>3, <2>2 DEF Injection, IsInjective
<1>5. s \in Surjection(1..len, ids)
  <2>1. IsFiniteSet(ids)
    BY <1>1 DEF CtrlInv
  <2> HIDE DEF len, ids
  <2>2. Cardinality(1..len) = len
    BY <1>2, FS_Interval
  <2> QED BY <1>2, <1>4, <2>1, <2>2, FS_Injection
<1>6. s \in Seq(Nat \ {0}) /\ Len(s) = len
  <2>1. ids \subseteq Nat \ {0}
    BY <1>1 DEF CtrlInv
  <2> HIDE DEF len, ids
  <2>2. s \in [1..len -> Nat \ {0}]
    BY <1>3, <2>1
  <2> QED BY <1>2, <2>2
<1>7. {s[i] : i \in 1..len} = ids
  BY <1>3, <1>5 DEF Surjection
<1> QED BY <1>1, <1>6, <1>7

\* A step of device d leaves the other devices alone.
Only(d) ==
  /\ DOMAIN ctrl' = DOMAIN ctrl /\ DOMAIN buffer' = DOMAIN buffer
  /\ DOMAIN namespaces' = DOMAIN namespaces /\ DOMAIN stage' = DOMAIN stage
  /\ DOMAIN todo' = DOMAIN todo /\ DOMAIN doubtful' = DOMAIN doubtful
  /\ \A e \in Controllers \ {d} :
       /\ ctrl'[e] = ctrl[e] /\ buffer'[e] = buffer[e] /\ namespaces'[e] = namespaces[e]
       /\ stage'[e] = stage[e] /\ todo'[e] = todo[e] /\ doubtful'[e] = doubtful[e]
       /\ e \in denied' <=> e \in denied
  /\ denials' \in 0..MaxRefused /\ uses' \in 0..MaxUses

\* So it is enough to look at device d.
LEMMA OnlyStep ==
  ASSUME NsInv, NEW d \in Controllers, Only(d), DeviceNsInv(d)'
  PROVE  NsInv'
<1>1. ASSUME NEW e \in Controllers, e # d PROVE DeviceNsInv(e)'
  <2>1. DeviceNsInv(e)
    BY DEF NsInv
  <2>2. /\ ctrl'[e] = ctrl[e] /\ buffer'[e] = buffer[e] /\ namespaces'[e] = namespaces[e]
        /\ stage'[e] = stage[e] /\ todo'[e] = todo[e] /\ doubtful'[e] = doubtful[e]
        /\ e \in denied' <=> e \in denied
    BY <1>1 DEF Only
  <2>3. CtrlInv(e)'
    BY <2>1, <2>2 DEF DeviceNsInv, CtrlInv
  <2>4. MapInv(e)'
    BY <2>1, <2>2 DEF DeviceNsInv, MapInv
  <2>5. Pending(e)' = Pending(e)
    BY <2>2 DEF Pending
  <2>6. ExactInv(e)'
    BY <2>1, <2>2, <2>5 DEF DeviceNsInv, ExactInv
  <2>7. CleanInv(e)'
    BY <2>1, <2>2, <2>5 DEF DeviceNsInv, CleanInv, Outgrown
  <2> QED BY <2>3, <2>4, <2>6, <2>7 DEF DeviceNsInv
<1> QED BY <1>1 DEF NsInv, Only

\* A new object knows of nothing.
LEMMA FreshDevice ==
  ASSUME NsInv, NEW d \in Controllers, fresh_device(d)
  PROVE  NsInv'
<1>1. Only(d)
  BY DEF NsInv, fresh_device, Enter, Fill, Only
<1>2. /\ stage'[d] = "controller" /\ buffer'[d] = [kind |-> "zeros"]
      /\ namespaces'[d] = Empty /\ doubtful'[d] = {}
      /\ ctrl'[d] = ctrl[d] /\ todo'[d] = todo[d]
  BY DEF NsInv, fresh_device, Enter, Fill
<1>3. CtrlInv(d)'
  BY <1>2 DEF NsInv, DeviceNsInv, CtrlInv
<1>4. MapInv(d)' /\ ExactInv(d)' /\ CleanInv(d)'
  BY <1>2 DEF MapInv, ExactInv, CleanInv, Empty
<1> QED BY <1>1, <1>3, <1>4, OnlyStep DEF DeviceNsInv

\* The controller data fills the buffer, or the error is passed on.
LEMMA IdentifyController ==
  ASSUME NsInv, NEW d \in Controllers, identify_controller(d)
  PROVE  NsInv'
<1>1. Only(d)
  BY NamespaceAssumption
  DEF NsInv, identify_controller, controller_data, Enter, Fill, Deny, Refuse, Only
<1>2. /\ stage[d] = "controller" /\ stage'[d] \in {"list", "error"}
      /\ buffer'[d] = [kind |-> "controller"] \/ buffer'[d] = buffer[d]
      /\ namespaces'[d] = namespaces[d] /\ doubtful'[d] = doubtful[d]
      /\ ctrl'[d] = ctrl[d] /\ todo'[d] = todo[d]
  BY DEF NsInv, identify_controller, controller_data, Enter, Fill, Deny, Refuse
<1>3. CtrlInv(d)'
  BY <1>2 DEF NsInv, DeviceNsInv, CtrlInv
<1>4. MapInv(d)' /\ ExactInv(d)' /\ CleanInv(d)'
  BY <1>2 DEF NsInv, DeviceNsInv, MapInv, ExactInv, CleanInv, Empty
<1> QED BY <1>1, <1>3, <1>4, OnlyStep DEF DeviceNsInv

\* A list that arrives has every id; one that does not makes all ids doubtful.
LEMMA IdentifyList ==
  ASSUME NsInv, NEW d \in Controllers, identify_namespace_list(d)
  PROVE  NsInv'
<1>0. CtrlInv(d) /\ MapInv(d) /\ CleanInv(d) /\ stage[d] = "list"
  BY DEF NsInv, DeviceNsInv, identify_namespace_list
<1>1. Only(d)
  BY NamespaceAssumption DEF NsInv, identify_namespace_list, Enter, Fill, Deny, Refuse, Only
<1>2. /\ stage'[d] = "each" /\ namespaces'[d] = Empty /\ doubtful[d] = {}
      /\ ctrl'[d] = ctrl[d] /\ todo'[d] = decode_list(buffer'[d])
  BY <1>0 DEF NsInv, MapInv, identify_namespace_list, Enter
<1>3. CASE /\ \E ids \in listed(d) : Fill(d, [kind |-> "list", ids |-> ids])
           /\ UNCHANGED <<denied, denials, doubtful>>
  <2>1. PICK s \in listed(d) : Fill(d, [kind |-> "list", ids |-> s])
    BY <1>3
  <2>2. buffer'[d] = [kind |-> "list", ids |-> s] /\ todo'[d] = s
    BY <1>2, <2>1 DEF NsInv, Fill, decode_list
  <2>3. s \in Seq(Nat \ {0}) /\ {s[i] : i \in 1..Len(s)} = DOMAIN ctrl[d]
    BY <1>0, ListComplete
  <2>4. CtrlInv(d)'
    BY <1>0, <1>2, <2>2, <2>3 DEF CtrlInv
  <2>5. Pending(d)' = DOMAIN ctrl[d]
    BY <2>2, <2>3 DEF Pending
  <2>6. MapInv(d)' /\ ExactInv(d)' /\ CleanInv(d)'
    BY <1>2, <2>5 DEF MapInv, ExactInv, CleanInv, Empty
  <2> QED BY <1>1, <2>4, <2>6, OnlyStep DEF DeviceNsInv
<1>4. CASE Deny(d) /\ doubtful' = [doubtful EXCEPT ![d] = DOMAIN ctrl[d]]
  <2>1. buffer'[d] = buffer[d] /\ d \in denied' /\ doubtful'[d] = DOMAIN ctrl[d]
    BY <1>4 DEF NsInv, Deny, Refuse
  <2>2. todo'[d] \in Seq(Nat \ {0})
    BY <1>0, <1>2, <2>1, NamespaceAssumption DEF CtrlInv, decode_list
  <2>3. CtrlInv(d)'
    BY <1>0, <1>2, <2>1, <2>2 DEF CtrlInv
  <2>4. MapInv(d)' /\ ExactInv(d)' /\ CleanInv(d)'
    BY <1>2, <2>1 DEF MapInv, ExactInv, CleanInv, Empty
  <2> QED BY <1>1, <2>3, <2>4, OnlyStep DEF DeviceNsInv
<1> QED BY <1>3, <1>4 DEF identify_namespace_list

\* What the buffer gives is a geometry, whatever it holds.
LEMMA Decoded ==
  ASSUME NEW b, b.kind = "namespace" => b.data \in Geometry,
         NEW data \in decode_namespace(b)
  PROVE  data \in Geometry
<1>1. Garbage \in Nat
  BY DEF Garbage
<1> QED BY <1>1 DEF decode_namespace, Geometry

\* identify_namespace gives id an entry: the controller's answer, or, with id
\* doubtful, something decoded from what the buffer held before.
LEMMA IdentifyEffect ==
  ASSUME NsInv, NEW d \in Controllers, NEW id \in Nat, identify_namespace(d, id)
  PROVE  /\ ctrl' = ctrl
         /\ DOMAIN buffer' = Controllers /\ DOMAIN doubtful' = Controllers
         /\ DOMAIN namespaces' = Controllers
         /\ \A e \in Controllers \ {d} :
              /\ buffer'[e] = buffer[e] /\ namespaces'[e] = namespaces[e]
              /\ doubtful'[e] = doubtful[e] /\ (e \in denied' <=> e \in denied)
         /\ denials' \in 0..MaxRefused
         /\ buffer'[d].kind = "namespace" => buffer'[d].data \in Geometry
         /\ buffer'[d].kind = "list" => buffer'[d].ids \in Seq(Nat \ {0})
         /\ DOMAIN namespaces'[d] = DOMAIN namespaces[d] \cup {id}
         /\ \A i \in DOMAIN namespaces[d] : i # id => namespaces'[d][i] = namespaces[d][i]
         /\ namespaces'[d][id] \in Geometry
         /\ \/ /\ id \in DOMAIN ctrl[d] /\ namespaces'[d][id] = ctrl[d][id]
               /\ doubtful'[d] = doubtful[d] \ {id} /\ denied' = denied
            \/ /\ doubtful'[d] = doubtful[d] \cup {id}
               /\ id \in DOMAIN ctrl[d] => d \in denied'
               /\ denied \subseteq denied'
<1>0. CtrlInv(d)
  BY DEF NsInv, DeviceNsInv
<1> DEFINE Answered == /\ id \in DOMAIN ctrl[d] /\ Fill(d, namespace_data(d, id))
                       /\ doubtful' = [doubtful EXCEPT ![d] = @ \ {id}]
                       /\ UNCHANGED <<denied, denials>>
           Unanswered == /\ IF id \in DOMAIN ctrl[d] THEN Deny(d)
                            ELSE UNCHANGED <<buffer, denied, denials>>
                         /\ doubtful' = [doubtful EXCEPT ![d] = @ \cup {id}]
<1>1. Answered \/ Unanswered
  BY DEF identify_namespace
<1>2. PICK data \in decode_namespace(buffer'[d]) : remember(d, id, data)
  BY DEF identify_namespace
<1>3. /\ DOMAIN namespaces' = Controllers /\ namespaces'[d][id] = data
      /\ \A e \in Controllers \ {d} : namespaces'[e] = namespaces[e]
      /\ DOMAIN namespaces'[d] = DOMAIN namespaces[d] \cup {id}
      /\ \A i \in DOMAIN namespaces[d] : i # id => namespaces'[d][i] = namespaces[d][i]
  BY <1>2 DEF NsInv, remember
<1>4. ctrl' = ctrl
  BY DEF identify_namespace
<1>5. CASE Answered
  <2>1. buffer'[d] = [kind |-> "namespace", data |-> ctrl[d][id]]
    BY <1>5 DEF NsInv, Fill, namespace_data
  <2>2. ctrl[d][id] \in Geometry
    BY <1>0, <1>5 DEF CtrlInv, Geometry
  <2>3. data = ctrl[d][id]
    BY <1>2, <2>1 DEF decode_namespace
  <2>4. /\ DOMAIN buffer' = Controllers /\ DOMAIN doubtful' = Controllers
        /\ \A e \in Controllers \ {d} :
             buffer'[e] = buffer[e] /\ doubtful'[e] = doubtful[e]
        /\ doubtful'[d] = doubtful[d] \ {id} /\ denied' = denied /\ denials' = denials
    BY <1>5 DEF NsInv, Fill
  <2> QED BY <1>3, <1>4, <1>5, <2>1, <2>2, <2>3, <2>4 DEF NsInv
<1>6. CASE Unanswered
  <2>1. buffer' = buffer /\ denied \subseteq denied' /\ denied' \subseteq denied \cup {d}
    BY <1>6 DEF Deny, Refuse
  <2>2. denials' \in 0..MaxRefused /\ (id \in DOMAIN ctrl[d] => d \in denied')
    BY <1>6, NamespaceAssumption DEF NsInv, Deny, Refuse
  <2>3. data \in Geometry
    BY <1>0, <1>2, <2>1, Decoded DEF CtrlInv
  <2>4. /\ DOMAIN doubtful' = Controllers /\ doubtful'[d] = doubtful[d] \cup {id}
        /\ \A e \in Controllers \ {d} : doubtful'[e] = doubtful[e]
    BY <1>6 DEF NsInv
  <2>5. \A e \in Controllers \ {d} : e \in denied' <=> e \in denied
    BY <2>1
  <2> QED BY <1>0, <1>3, <1>4, <2>1, <2>2, <2>3, <2>4, <2>5 DEF NsInv, CtrlInv
<1> QED BY <1>1, <1>5, <1>6

\* Identifying a namespace keeps the invariant of its device if no other id
\* stops being pending, and if an id the controller does not have is tried only
\* after a refusal.
LEMMA IdentifyInv ==
  ASSUME NsInv, NEW d \in Controllers, NEW id \in Nat, identify_namespace(d, id),
         stage'[d] = stage[d], stage[d] \in {"each", "ready"},
         todo'[d] \in Seq(Nat \ {0}), stage[d] = "ready" => todo'[d] = <<>>,
         Pending(d) \subseteq Pending(d)' \cup {id}, Pending(d)' \subseteq Pending(d),
         d \notin denied => id \in DOMAIN ctrl[d]
  PROVE  DeviceNsInv(d)'
<1>0. DeviceNsInv(d)
  BY DEF NsInv
<1>1. /\ ctrl' = ctrl
      /\ buffer'[d].kind = "namespace" => buffer'[d].data \in Geometry
      /\ buffer'[d].kind = "list" => buffer'[d].ids \in Seq(Nat \ {0})
      /\ DOMAIN namespaces'[d] = DOMAIN namespaces[d] \cup {id}
      /\ \A i \in DOMAIN namespaces[d] : i # id => namespaces'[d][i] = namespaces[d][i]
      /\ namespaces'[d][id] \in Geometry
  BY IdentifyEffect
<1>2. \/ /\ id \in DOMAIN ctrl[d] /\ namespaces'[d][id] = ctrl[d][id]
         /\ doubtful'[d] = doubtful[d] \ {id} /\ denied' = denied
      \/ /\ doubtful'[d] = doubtful[d] \cup {id}
         /\ id \in DOMAIN ctrl[d] => d \in denied'
         /\ denied \subseteq denied'
  BY IdentifyEffect
<1>3. CtrlInv(d)'
  BY <1>0, <1>1 DEF DeviceNsInv, CtrlInv
<1>4. MapInv(d)'
  <2>1. \A i \in DOMAIN namespaces'[d] : namespaces'[d][i] \in Geometry
    BY <1>0, <1>1 DEF DeviceNsInv, MapInv
  <2> QED BY <2>1 DEF MapInv
<1>5. ExactInv(d)'
  <2>1. ASSUME NEW i \in DOMAIN ctrl[d], i \notin doubtful'[d]
        PROVE  \/ i \in Pending(d)'
               \/ i \in DOMAIN namespaces'[d] /\ namespaces'[d][i] = ctrl[d][i]
    <3>1. CASE i = id
      BY <1>1, <1>2, <2>1, <3>1
    <3>2. CASE i # id
      <4>1. i \notin doubtful[d]
        BY <1>2, <2>1, <3>2
      <4> QED BY <1>0, <1>1, <3>2, <4>1 DEF DeviceNsInv, ExactInv
    <3> QED BY <3>1, <3>2
  <2>2. DOMAIN namespaces'[d] \subseteq DOMAIN ctrl[d] \cup doubtful'[d]
    BY <1>0, <1>1, <1>2 DEF DeviceNsInv, ExactInv
  <2> QED BY <1>1, <2>1, <2>2 DEF ExactInv
<1>6. CleanInv(d)'
  <2> SUFFICES ASSUME d \notin denied'
               PROVE  /\ Pending(d)' \subseteq DOMAIN ctrl[d]
                      /\ DOMAIN ctrl[d] \subseteq DOMAIN namespaces'[d] \cup Pending(d)'
                      /\ \A i \in DOMAIN namespaces'[d] :
                           namespaces'[d][i].block_size \in BlockSizes
    BY <1>1 DEF CleanInv
  <2>1. d \notin denied /\ namespaces'[d][id] = ctrl[d][id] /\ id \in DOMAIN ctrl[d]
    BY <1>2
  <2>2. ctrl[d][id].block_size \in BlockSizes
    BY <1>0, <2>1 DEF DeviceNsInv, CtrlInv
  <2> QED BY <1>0, <1>1, <2>1, <2>2 DEF DeviceNsInv, CleanInv
<1> QED BY <1>3, <1>4, <1>5, <1>6 DEF DeviceNsInv

\* The loop of init: the id it identifies is no longer pending.
LEMMA IdentifyNext ==
  ASSUME NsInv, NEW d \in Controllers, identify_next(d)
  PROVE  NsInv'
<1> DEFINE id == Head(todo[d])
<1>0. DeviceNsInv(d) /\ stage[d] = "each" /\ todo[d] # <<>>
  BY DEF NsInv, identify_next
<1>1. /\ id \in Nat /\ todo[d] \in Seq(Nat \ {0}) /\ Tail(todo[d]) \in Seq(Nat \ {0})
      /\ Len(todo[d]) \in Nat \ {0} /\ Len(Tail(todo[d])) = Len(todo[d]) - 1
      /\ id = todo[d][1]
      /\ \A i \in 1..(Len(todo[d]) - 1) : Tail(todo[d])[i] = todo[d][i + 1]
  BY <1>0 DEF DeviceNsInv, CtrlInv
<1>2. /\ identify_namespace(d, id) /\ stage' = stage /\ uses' = uses
      /\ DOMAIN todo' = Controllers /\ todo'[d] = Tail(todo[d])
      /\ \A e \in Controllers \ {d} : todo'[e] = todo[e]
  BY DEF NsInv, identify_next
<1> HIDE DEF id
<1>3. Pending(d) \subseteq Pending(d)' \cup {id}
  <2> SUFFICES ASSUME NEW i \in 1..Len(todo[d]), todo[d][i] # id
               PROVE  todo[d][i] \in Pending(d)'
    BY DEF Pending
  <2>1. i - 1 \in 1..(Len(todo[d]) - 1) /\ (i - 1) + 1 = i
    BY <1>1
  <2>2. i - 1 \in 1..Len(todo'[d]) /\ todo'[d][i - 1] = todo[d][i]
    BY <1>1, <1>2, <2>1
  <2> QED BY <2>2 DEF Pending
<1>4. Pending(d)' \subseteq Pending(d) /\ id \in Pending(d)
  <2>1. 1 \in 1..Len(todo[d])
    BY <1>1
  <2>2. ASSUME NEW i \in 1..Len(todo'[d]) PROVE todo'[d][i] \in Pending(d)
    <3>1. i \in 1..(Len(todo[d]) - 1) /\ i + 1 \in 1..Len(todo[d])
      BY <1>1, <1>2
    <3>2. todo'[d][i] = todo[d][i + 1]
      BY <1>1, <1>2, <3>1
    <3> QED BY <3>1, <3>2 DEF Pending
  <2> QED BY <1>1, <2>1, <2>2 DEF Pending
<1>5. d \notin denied => id \in DOMAIN ctrl[d]
  BY <1>0, <1>4 DEF DeviceNsInv, CleanInv
<1>6. DeviceNsInv(d)'
  BY <1>0, <1>1, <1>2, <1>3, <1>4, <1>5, IdentifyInv
<1>7. Only(d)
  BY <1>1, <1>2, IdentifyEffect DEF NsInv, Only
<1> QED BY <1>6, <1>7, OnlyStep

\* The device is up when nothing is pending.
LEMMA IdentifiedAll ==
  ASSUME NsInv, NEW d \in Controllers, identified_all(d)
  PROVE  NsInv'
<1>0. DeviceNsInv(d) /\ stage[d] = "each" /\ todo[d] = <<>>
  BY DEF NsInv, identified_all
<1>1. Only(d) /\ stage'[d] = "ready"
      /\ UNCHANGED <<ctrl, buffer, namespaces, todo, doubtful, denied>>
  BY DEF NsInv, identified_all, Enter, Only
<1>2. CtrlInv(d)' /\ MapInv(d)'
  BY <1>0, <1>1 DEF DeviceNsInv, CtrlInv, MapInv
<1>3. ExactInv(d)' /\ CleanInv(d)'
  BY <1>0, <1>1 DEF DeviceNsInv, ExactInv, CleanInv, Pending
<1> QED BY <1>1, <1>2, <1>3, OnlyStep DEF DeviceNsInv

\* identify_namespace on a device that is up.
LEMMA IdentifyAgain ==
  ASSUME NsInv, NEW d \in Controllers, identify_again(d)
  PROVE  NsInv'
<1>0. DeviceNsInv(d) /\ stage[d] = "ready" /\ todo[d] = <<>>
  BY DEF NsInv, DeviceNsInv, MapInv, identify_again, Use
<1>1. PICK id \in DOMAIN ctrl[d] : identify_namespace(d, id)
  BY DEF identify_again
<1>2. id \in Nat
  BY <1>0 DEF DeviceNsInv, CtrlInv
<1>3. UNCHANGED <<stage, todo>> /\ uses' \in 0..MaxUses
  BY NamespaceAssumption DEF identify_again, Use, NsInv
<1>4. Pending(d)' = Pending(d)
  BY <1>3 DEF Pending
<1>5. todo'[d] \in Seq(Nat \ {0}) /\ stage'[d] = stage[d] /\ todo'[d] = <<>>
  BY <1>0, <1>3 DEF DeviceNsInv, CtrlInv
<1>6. DeviceNsInv(d)'
  BY <1>0, <1>1, <1>2, <1>4, <1>5, IdentifyInv
<1>7. Only(d)
  BY <1>1, <1>2, <1>3, IdentifyEffect DEF NsInv, Only
<1> QED BY <1>6, <1>7, OnlyStep

\* LBA format 0 is what a namespace with blocks of that size has already.
LEMMA FormattedSame ==
  ASSUME NEW d \in Controllers, NEW data \in [blocks : Nat, block_size : BlockSizes]
  PROVE  /\ Formatted(d, data) \in [blocks : Nat, block_size : BlockSizes]
         /\ data.block_size = Format0[d] => Formatted(d, data) = data
<1>1. Format0[d] \in Nat \ {0} /\ data.blocks \in Nat /\ data.block_size \in Nat
  BY NamespaceAssumption DEF BlockSizes
<1>2. \A x \in Nat : x \div Format0[d] \in Nat
  BY <1>1
<1>3. Format0[d] = 512 \/ Format0[d] = 4096
  BY NamespaceAssumption DEF BlockSizes
<1>4. (data.blocks * Format0[d]) \div Format0[d] = data.blocks
  BY <1>1, <1>3
<1>5. data.blocks * data.block_size \in Nat
  BY <1>1
<1>6. Formatted(d, data) \in [blocks : Nat, block_size : BlockSizes]
  BY <1>2, <1>5, NamespaceAssumption DEF Formatted
<1>7. ASSUME data.block_size = Format0[d] PROVE Formatted(d, data) = data
  BY <1>4, <1>7 DEF Formatted
<1> QED BY <1>6, <1>7

\* A namespace that changes its format becomes doubtful; the map still has an
\* entry for it.
LEMMA FormatNamespace ==
  ASSUME NsInv, NEW d \in Controllers, NEW ids \in SUBSET DOMAIN ctrl[d],
         format_namespace(d, ids)
  PROVE  NsInv'
<1>0. /\ DeviceNsInv(d) /\ stage[d] = "ready" /\ todo' = todo /\ namespaces' = namespaces
      /\ uses' \in 0..MaxUses /\ todo[d] = <<>>
  BY NamespaceAssumption DEF NsInv, DeviceNsInv, MapInv, format_namespace, Use
<1>1. Pending(d) = {} /\ Pending(d)' = {}
  BY <1>0 DEF Pending
<1>2. CASE /\ ~(ids \subseteq DOMAIN namespaces[d]) /\ Enter(d, "panicked")
           /\ UNCHANGED <<ctrl, buffer, doubtful, denied, denials>>
  <2>1. d \in denied
    BY <1>0, <1>1, <1>2 DEF DeviceNsInv, CleanInv
  <2>2. Only(d) /\ stage'[d] = "panicked"
    BY <1>0, <1>2 DEF NsInv, Only, Enter
  <2>3. CtrlInv(d)' /\ MapInv(d)' /\ ExactInv(d)' /\ CleanInv(d)'
    BY <1>0, <1>2, <2>1, <2>2 DEF DeviceNsInv, CtrlInv, MapInv, ExactInv, CleanInv
  <2> QED BY <2>2, <2>3, OnlyStep DEF DeviceNsInv
<1>3. CASE /\ ctrl' = [ctrl EXCEPT ![d] = [id \in DOMAIN @ |->
                         IF id \in ids THEN Formatted(d, @[id]) ELSE @[id]]]
           /\ doubtful' = [doubtful EXCEPT ![d] = @ \cup
                             {id \in ids : ctrl[d][id].block_size # Format0[d]}]
           /\ UNCHANGED <<buffer, denied, denials, stage>>
  <2>1. Only(d)
    BY <1>0, <1>3 DEF NsInv, Only
  <2>2. /\ ctrl'[d] = [id \in DOMAIN ctrl[d] |->
                         IF id \in ids THEN Formatted(d, ctrl[d][id]) ELSE ctrl[d][id]]
        /\ doubtful'[d] = doubtful[d] \cup {id \in ids : ctrl[d][id].block_size # Format0[d]}
    BY <1>3 DEF NsInv
  <2>3. \A id \in DOMAIN ctrl[d] :
          /\ ctrl[d][id] \in [blocks : Nat, block_size : BlockSizes]
          /\ ctrl'[d][id] \in [blocks : Nat, block_size : BlockSizes]
          /\ id \notin doubtful'[d] => ctrl'[d][id] = ctrl[d][id]
    BY <1>0, <2>2, FormattedSame DEF DeviceNsInv, CtrlInv
  <2>4. DOMAIN ctrl'[d] = DOMAIN ctrl[d]
    BY <2>2
  <2>5. CtrlInv(d)'
    <3>1. ctrl'[d] \in [DOMAIN ctrl'[d] -> [blocks : Nat, block_size : BlockSizes]]
      BY <2>2, <2>3, <2>4
    <3> QED BY <1>0, <1>3, <2>4, <3>1 DEF DeviceNsInv, CtrlInv
  <2>6. MapInv(d)'
    BY <1>0, <1>3 DEF DeviceNsInv, MapInv
  <2>7. ExactInv(d)'
    BY <1>0, <1>1, <2>2, <2>3, <2>4 DEF DeviceNsInv, ExactInv
  <2>8. CleanInv(d)'
    BY <1>0, <1>1, <1>3, <2>4 DEF DeviceNsInv, CleanInv
  <2> QED BY <2>1, <2>5, <2>6, <2>7, <2>8, OnlyStep DEF DeviceNsInv
<1>4. CASE Deny(d) /\ UNCHANGED <<ctrl, doubtful, stage>>
  <2>1. Only(d)
    BY <1>0, <1>4, NamespaceAssumption DEF NsInv, Only, Deny, Refuse
  <2>2. UNCHANGED <<ctrl, doubtful, stage, buffer>> /\ d \in denied'
    BY <1>4 DEF Deny, Refuse
  <2>3. CtrlInv(d)' /\ MapInv(d)' /\ ExactInv(d)' /\ CleanInv(d)'
    BY <1>0, <1>1, <2>2 DEF DeviceNsInv, CtrlInv, MapInv, ExactInv, CleanInv
  <2> QED BY <2>1, <2>3, OnlyStep DEF DeviceNsInv
<1> QED BY <1>2, <1>3, <1>4 DEF format_namespace

\* A transfer uses the buffer; without a refusal it finds an entry it can divide
\* by, and fails only on blocks that have outgrown the map.
LEMMA Transfer ==
  ASSUME NsInv, NEW d \in Controllers, NEW id \in DOMAIN ctrl[d], transfer(d, id)
  PROVE  NsInv'
<1>0. /\ DeviceNsInv(d) /\ stage[d] = "ready" /\ uses' \in 0..MaxUses /\ todo[d] = <<>>
      /\ UNCHANGED <<ctrl, namespaces, todo, doubtful>>
  BY NamespaceAssumption DEF NsInv, DeviceNsInv, MapInv, transfer, Use
<1>1. Pending(d) = {} /\ Pending(d)' = {}
  BY <1>0 DEF Pending
<1>2. /\ denials' \in 0..MaxRefused
      /\ denied' = denied \/ denied' = denied \cup {d}
      /\ (UNCHANGED buffer \/ Fill(d, [kind |-> "user"]))
      /\ (UNCHANGED stage \/ Enter(d, "panicked"))
  BY NamespaceAssumption DEF NsInv, transfer, Refuse
<1>3. /\ Only(d) /\ (buffer'[d] = buffer[d] \/ buffer'[d] = [kind |-> "user"])
      /\ (stage'[d] = stage[d] \/ stage'[d] = "panicked")
  BY <1>0, <1>2 DEF NsInv, Only, Fill, Enter
<1>4. CtrlInv(d)'
  <2>1. buffer'[d] = buffer[d] \/ buffer'[d].kind = "user"
    BY <1>3
  <2> QED BY <1>0, <2>1 DEF DeviceNsInv, CtrlInv
<1>5. MapInv(d)' /\ ExactInv(d)'
  BY <1>0, <1>1, <1>3 DEF DeviceNsInv, MapInv, ExactInv
<1>6. CASE d \in denied'
  <2>1. CleanInv(d)'
    BY <1>6 DEF CleanInv
  <2> QED BY <1>3, <1>4, <1>5, <2>1, OnlyStep DEF DeviceNsInv
<1>7. CASE d \notin denied'
  <2>1. d \notin denied
    BY <1>2, <1>7
  <2>2. id \in DOMAIN namespaces[d] /\ namespaces[d][id].block_size # 0
    BY <1>0, <1>1, <2>1 DEF DeviceNsInv, CleanInv, BlockSizes
  <2>3. UNCHANGED stage \/ Outgrown(d, id)
    BY <1>7, <2>2 DEF transfer, Refuse
  <2>4. stage'[d] = "panicked" =>
          \E i \in DOMAIN ctrl'[d] \cap DOMAIN namespaces'[d] : Outgrown(d, i)'
    BY <1>0, <2>2, <2>3 DEF Outgrown
  <2>5. CleanInv(d)'
    BY <1>0, <1>1, <1>3, <2>1, <2>4 DEF DeviceNsInv, CleanInv
  <2> QED BY <1>3, <1>4, <1>5, <2>5, OnlyStep DEF DeviceNsInv
<1> QED BY <1>6, <1>7

\* The operations of bring-up and those of a device in use.
LEMMA NsStep ==
  ASSUME NsInv, NEW d \in Controllers, NsBringUp(d) \/ NsUse(d)
  PROVE  NsInv'
BY IdentifyController, IdentifyList, IdentifyNext, IdentifiedAll, IdentifyAgain,
   FormatNamespace, Transfer DEF NsBringUp, NsUse

\* Dropping the device object.
LEMMA NsDrop ==
  ASSUME NsInv, NEW d \in Controllers, Enter(d, "none"),
         UNCHANGED <<ctrl, buffer, namespaces, todo, doubtful, denied, denials, uses>>
  PROVE  NsInv'
<1>1. Only(d) /\ stage'[d] = "none"
  BY DEF NsInv, Enter, Only
<1>2. CtrlInv(d)' /\ MapInv(d)' /\ ExactInv(d)' /\ CleanInv(d)'
  BY <1>1 DEF NsInv, DeviceNsInv, CtrlInv, MapInv, ExactInv, CleanInv
<1> QED BY <1>1, <1>2, OnlyStep DEF DeviceNsInv

\* A step of the threads that concerns no namespace.
LEMMA NsStutter == NsInv /\ UNCHANGED nsVars => NsInv'
BY DEF NsInv, nsVars, DeviceNsInv, CtrlInv, MapInv, ExactInv, CleanInv, Pending, Outgrown

\* No device is up at first.
LEMMA NsInitInv == NsInit => NsInv
<1> SUFFICES ASSUME NsInit PROVE NsInv
  OBVIOUS
<1>1. denials \in 0..MaxRefused /\ uses \in 0..MaxUses
  BY NamespaceAssumption DEF NsInit
<1>2. ASSUME NEW d \in Controllers PROVE DeviceNsInv(d)
  <2>1. /\ ctrl[d] \in Layouts /\ buffer[d] = [kind |-> "zeros"] /\ namespaces[d] = Empty
        /\ stage[d] = "none" /\ todo[d] = <<>> /\ denied = {}
    BY DEF NsInit
  <2>2. Cardinality(DOMAIN ctrl[d]) <= ListLen
    <3>1. /\ ListLen \in Nat /\ IsFiniteSet(DOMAIN ctrl[d])
          /\ Cardinality(DOMAIN ctrl[d]) <= Min({ListLen, 6})
      BY <2>1, NamespaceAssumption
    <3>2. Min({ListLen, 6}) \in Nat /\ Min({ListLen, 6}) <= ListLen
      BY <3>1 DEF Min
    <3>3. Cardinality(DOMAIN ctrl[d]) \in Nat
      BY <3>1, FS_CardinalityType
    <3> QED BY <3>1, <3>2, <3>3
  <2>3. CtrlInv(d)
    BY <2>1, <2>2, NamespaceAssumption DEF CtrlInv
  <2>4. MapInv(d) /\ ExactInv(d) /\ CleanInv(d)
    BY <2>1 DEF MapInv, ExactInv, CleanInv, Empty
  <2> QED BY <2>3, <2>4 DEF DeviceNsInv
<1> QED BY <1>1, <1>2 DEF NsInit, NsInv
==============================================================================
