---------------------------- MODULE InlineCache ----------------------------
(***************************************************************************)
(* Object layouts (shapes.go, object.go) and the inline caches of the      *)
(* property opcodes that bet on them (propcache.go).                       *)
(*                                                                         *)
(* A shape of the transition tree is named by the path of transitions that *)
(* leads to it from the root, so two objects built alike stand on the same *)
(* shape; a private shape is named by the one object that owns it and is   *)
(* edited in place.  One cache site, which reads or stores the name Name,  *)
(* serves every object (a second site could only set more usedAsProto      *)
(* flags, and so retire more).  The epoch is only ever compared for        *)
(* equality with the one a way was filled in, so a bump empties every way  *)
(* (the wrap of the 32-bit counter is left out).  Values are left out too: *)
(* a cache is right when it goes to the place [[Get]] or [[Set]] would.    *)
(* The field code of a way is history: whether a setter ran during the     *)
(* store the way was filled by, which the code has no means to know.       *)
(***************************************************************************)
EXTENDS Integers, Sequences, FiniteSets, SequencesExt

CONSTANTS Objs,      \* the cells of the object pool
          Keys,      \* property names
          Name,      \* the name the cache site is compiled for
          Ways,      \* icWays
          MaxPath,   \* bound: transitions taken from the root
          MaxOps,    \* bound: layout operations in a behaviour
          none       \* no object

(* The names of the shapes of the tree, none of which is a cell. *)
Paths == Seq([key : Keys, attrs : SUBSET {"W", "C"}])

ASSUME CacheAssumption ==
  /\ Name \in Keys /\ none \notin Objs
  /\ IsFiniteSet(Objs) /\ (Objs \cup {none}) \cap Paths = {}
  /\ Ways \in Nat \ {0} /\ MaxPath \in Nat /\ MaxOps \in Nat

VARIABLES tree,       \* the paths of the shapes recordChild has entered
          rootRefs,   \* refCount of the root shape
          shape,      \* shape[o]: a path, or o itself when it is private
          priv,       \* priv[o]: the properties of o's private shape
          proto,      \* [[Prototype]]
          extensible, \* flags.extensible
          usedAsProto,\* flags.usedAsProto: a cached walk passed through here
          live,       \* cells in use
          op,         \* the opcode the site belongs to: "get" or "put"
          ways,       \* the ways the site has filled
          store,      \* a store not yet back from [[Set]]: [obj, pre, code]
          ops         \* layout operations so far

objects == <<tree, rootRefs, shape, priv, proto, extensible, live>>
vars == <<objects, usedAsProto, op, ways, store, ops>>

-----------------------------------------------------------------------------
(* Layouts *)

Default  == {"W", "C"}       \* attrDefault
ReadOnly == {"C"}            \* configurable, not writable
Root     == <<>>
NoStore  == [obj |-> none, pre |-> none, code |-> FALSE]

(* addKey: a new key takes the next slot, an old one gets new attributes. *)
SlotOf(props, k) ==
  IF \E i \in DOMAIN props : props[i].key = k
  THEN CHOOSE i \in DOMAIN props : props[i].key = k ELSE 0

addKey(props, k, attrs) ==
  LET i == SlotOf(props, k)
  IN  IF i = 0 THEN Append(props, [key |-> k, attrs |-> attrs, acc |-> FALSE])
               ELSE [props EXCEPT ![i].attrs = attrs]

(* A shape of the tree holds what the transitions of its path add up to. *)
LayoutOf(path) ==
  LET at[i \in 0 .. Len(path)] ==
        IF i = 0 THEN <<>> ELSE addKey(at[i - 1], path[i].key, path[i].attrs)
  IN  at[Len(path)]

PropsOf(s) == IF s \in Objs THEN priv[s] ELSE LayoutOf(s)
Props(o)   == PropsOf(shape[o])
Own(o, k)  == SlotOf(Props(o), k)

(* isInTree: a parent, or (the root) another holder. *)
isInTree(s) == s \notin Objs /\ (s = Root => rootRefs > 1)

(* The n-th object up the prototype chain of o, none past its end. *)
Up(o, n) ==
  LET at[i \in 0 .. Cardinality(Objs)] ==
        IF i = 0 THEN o
        ELSE IF at[i - 1] = none THEN none ELSE proto[at[i - 1]]
  IN  at[n]

Depths == 1 .. Cardinality(Objs)
Chain(o) == {Up(o, n) : n \in Depths} \ {none}

(* The depth at which the walk up from o meets Name, starting above o. *)
FoundAt(o) ==
  LET hits == {n \in Depths : Up(o, n) # none /\ Own(Up(o, n), Name) # 0}
  IN  IF hits = {} THEN 0 ELSE CHOOSE n \in hits : \A m \in hits : n <= m

(* Every object a walk from o looks at before it stops. *)
Walked(o) == {Up(o, n) : n \in IF FoundAt(o) = 0 THEN Depths ELSE 1 .. FoundAt(o)}
               \ {none}

-----------------------------------------------------------------------------
(* Cache sites *)

Stale == [shape |-> none, slot |-> 0, to |-> none, holder |-> none, proto |-> none,
          code |-> FALSE]

icEpochBump == [i \in DOMAIN ways |-> Stale]

(* hit: this way describes o's layout; slot 0 is icMissSlot. *)
hit(w, o) ==
  /\ w.shape = shape[o]
  /\ w.slot # 0
  /\ (w.holder # none \/ w.to # none) => w.proto = proto[o]

known(o) == \E i \in DOMAIN ways : ways[i].shape = shape[o]

(* way, wayIndex: one keyed on s or stale, else a new one, else the oldest. *)
wayIndex(s) ==
  LET usable == {i \in DOMAIN ways : ways[i].shape \in {s, none}}
  IN  IF usable # {} THEN CHOOSE i \in usable : \A j \in usable : i <= j
      ELSE IF Len(ways) < Ways THEN Len(ways) + 1 ELSE 1

record(s, w) ==
  LET i == wayIndex(s)
  IN  ways' = IF i > Len(ways) THEN Append(ways, w) ELSE [ways EXCEPT ![i] = w]

(* The way icFillGet records for o: its own slot, a slot up the chain       *)
(* (icProtoHolder), or the fact that there is nothing to cache.             *)
GetWay(o) ==
  LET own == Own(o, Name)
      n   == FoundAt(o)
      h   == Up(o, n)
  IN  IF own # 0
      THEN [Stale EXCEPT !.shape = shape[o],
                         !.slot = IF Props(o)[own].acc THEN 0 ELSE own]
      ELSE IF n # 0 /\ ~ Props(h)[Own(h, Name)].acc
      THEN [Stale EXCEPT !.shape = shape[o], !.slot = Own(h, Name),
                         !.holder = h, !.proto = proto[o]]
      ELSE [Stale EXCEPT !.shape = shape[o]]

icFillGet(o) ==
  /\ ~ known(o)
  /\ record(shape[o], GetWay(o))
  /\ usedAsProto' = usedAsProto \cup (IF Own(o, Name) # 0 THEN {} ELSE Walked(o))

(* icProtoChainClean: nothing up the chain would redirect a store. *)
Clean(o) ==
  LET h == Up(o, FoundAt(o))
      p == Props(h)[Own(h, Name)]
  IN  FoundAt(o) # 0 => ~ p.acc /\ "W" \in p.attrs

icFillPut(o) ==
  /\ IF known(o) THEN UNCHANGED ways
     ELSE LET own == Own(o, Name)
              ok  == own # 0 /\ ~ Props(o)[own].acc /\ "W" \in Props(o)[own].attrs
          IN  record(shape[o],
                     [Stale EXCEPT !.shape = shape[o], !.slot = IF ok THEN own ELSE 0])
  /\ UNCHANGED usedAsProto

(* The conditions under which icFillPutTransition looks at the chain at all. *)
AddedDefault(o) ==
  LET own == Own(o, Name)
  IN  own # 0 /\ ~ Props(o)[own].acc /\ Props(o)[own].attrs = Default

(* Any layout is handed on, a private one too. *)
ShareAny(o) == TRUE

Shareable(o) == isInTree(shape[o])

(* The chain is judged, but the objects on it are not flagged. *)
FillUnflagged(o, pre) ==
  /\ UNCHANGED usedAsProto
  /\ IF AddedDefault(o) /\ Shareable(o) /\ Clean(o)
     THEN record(pre, [Stale EXCEPT !.shape = pre, !.slot = Own(o, Name),
                                    !.to = shape[o], !.proto = proto[o],
                                    !.code = store.code])
     ELSE UNCHANGED ways

icFillPutTransition(o, pre) ==
  IF AddedDefault(o) /\ Shareable(o)
  THEN /\ usedAsProto' = usedAsProto \cup Walked(o)
       /\ IF Clean(o)
          THEN record(pre,
                      [Stale EXCEPT !.shape = pre, !.slot = Own(o, Name),
                                    !.to = shape[o], !.proto = proto[o],
                                    !.code = store.code])
          ELSE UNCHANGED ways
  ELSE UNCHANGED <<usedAsProto, ways>>

-----------------------------------------------------------------------------
(* Layout operations *)

(* The transitions objects built and dropped earlier may have left behind. *)
Built ==
  LET by(k) == [key |-> k, attrs |-> Default]
  IN  {Root} \cup {<<by(k)>> : k \in Keys} \cup {<<by(k), by(Name)>> : k \in Keys \ {Name}}

Init ==
  /\ tree \in {{Root}, Built}
  /\ live = Objs
  /\ rootRefs = 1 + Cardinality(Objs)
  /\ shape = [o \in Objs |-> Root]
  /\ priv = [o \in Objs |-> <<>>]
  /\ proto \in [Objs -> Objs \cup {none}]
  /\ \A o \in Objs : o \notin Chain(o)
  /\ extensible = Objs
  /\ usedAsProto = {}
  /\ op \in {"get", "put"}
  /\ ways = <<>>
  /\ store = NoStore
  /\ ops = 0

(* A key appended to a private shape retires nothing. *)
AddKeyQuietly(o, k, attrs) ==
  LET s    == shape[o]
      next == Append(s, [key |-> k, attrs |-> attrs])
      old  == SlotOf(PropsOf(s), k) # 0
  IN  IF isInTree(s) /\ next \in tree
      THEN [shape |-> next, props |-> priv[o], tree |-> tree, bump |-> FALSE]
      ELSE [shape |-> o, props |-> addKey(PropsOf(s), k, attrs), bump |-> old,
            tree |-> IF isInTree(s) THEN tree \cup {next} ELSE tree]

(* What addKeyTr makes of shape s of object o: an in-place edit of a       *)
(* private shape; a known transition; or a new one, which the tree records *)
(* while the object goes off with a private copy.                          *)
addKeyTr(o, k, attrs) ==
  LET s    == shape[o]
      next == Append(s, [key |-> k, attrs |-> attrs])
  IN  IF ~ isInTree(s)
      THEN [shape |-> s, props |-> addKey(PropsOf(s), k, attrs), tree |-> tree, bump |-> TRUE]
      ELSE IF next \in tree
      THEN [shape |-> next, props |-> priv[o], tree |-> tree, bump |-> FALSE]
      ELSE [shape |-> o, props |-> addKey(PropsOf(s), k, attrs),
            tree |-> tree \cup {next}, bump |-> SlotOf(PropsOf(s), k) # 0]

(* An object leaving the root gives up its reference to it. *)
Release(o) == rootRefs - (IF shape[o] = Root THEN 1 ELSE 0)

(* noteLayoutChange, and whatever the change itself retired. *)
NoteLayout(o, bumped) ==
  ways' = IF bumped \/ o \in usedAsProto THEN icEpochBump ELSE ways

(* Install new private properties: ensureUniqueShape, then an edit in place. *)
Privately(o, props, bumped) ==
  /\ shape' = [shape EXCEPT ![o] = o]
  /\ priv' = [priv EXCEPT ![o] = props]
  /\ rootRefs' = Release(o)
  /\ NoteLayout(o, bumped)

(* defineOwn: the shape addKeyTr gives, with any accessor cleared. *)
defineOwn(o, k, attrs) ==
  LET r == addKeyTr(o, k, attrs)
  IN  /\ shape' = [shape EXCEPT ![o] = r.shape]
      /\ priv' = [priv EXCEPT ![o] =
                    [i \in DOMAIN r.props |->
                       IF r.props[i].key = k THEN [r.props[i] EXCEPT !.acc = FALSE]
                                             ELSE r.props[i]]]
      /\ tree' = r.tree
      /\ rootRefs' = Release(o)
      /\ NoteLayout(o, r.bump)

(* A store that ran no code fills its site before anything else happens. *)
Running == store = NoStore \/ store.code

(* Layout operations are bounded, and paths stay short enough to enumerate. *)
Count == Running /\ ops < MaxOps /\ ops' = ops + 1

Spend(o) ==
  /\ Count
  /\ o \in live
  /\ shape[o] \notin Objs => Len(shape[o]) < MaxPath

MayDefine(o, k) ==
  LET i == Own(o, k)
  IN  IF i = 0 THEN o \in extensible ELSE "C" \in Props(o)[i].attrs

DefineOwn(o, k, attrs) ==
  /\ Spend(o) /\ MayDefine(o, k)
  /\ defineOwn(o, k, attrs)
  /\ UNCHANGED <<op, proto, extensible, live, usedAsProto, store>>

DefineAccessor(o, k) ==
  LET r == addKeyTr(o, k, ReadOnly)
      p == IF r.shape \in Objs THEN r.props ELSE LayoutOf(r.shape)
  IN  /\ Spend(o) /\ MayDefine(o, k)
      /\ Privately(o, [p EXCEPT ![SlotOf(p, k)].acc = TRUE], r.bump)
      /\ tree' = r.tree
      /\ UNCHANGED <<op, proto, extensible, live, usedAsProto, store>>

(* deleteSlot: the slots above the removed one move down. *)
Delete(o, k) ==
  LET i == Own(o, k)
  IN  /\ Spend(o)
      /\ i # 0 /\ "C" \in Props(o)[i].attrs
      /\ Privately(o, RemoveAt(Props(o), i), TRUE)
      /\ UNCHANGED <<op, tree, proto, extensible, live, usedAsProto, store>>

(* Object.seal, Object.freeze: every property loses C, and when freezing a *)
(* data property loses W.                                                  *)
Freeze(o, freeze) ==
  LET lost(p) == IF freeze /\ ~ p.acc THEN {"C", "W"} ELSE {"C"}
  IN  /\ Spend(o)
      /\ extensible' = extensible \ {o}
      /\ Privately(o, [i \in DOMAIN Props(o) |->
                         [Props(o)[i] EXCEPT !.attrs = @ \ lost(Props(o)[i])]], TRUE)
      /\ UNCHANGED <<op, tree, proto, live, usedAsProto, store>>

PreventExtensions(o) ==
  /\ Spend(o) /\ o \in extensible
  /\ extensible' = extensible \ {o}
  /\ UNCHANGED <<op, tree, rootRefs, shape, priv, proto, live, usedAsProto, ways, store>>

(* ordinarySetProto: refused on a frozen object and where it closes a cycle. *)
SetProto(o, p) ==
  /\ Spend(o)
  /\ p \in live \cup {none} /\ p # proto[o]
  /\ o \in extensible
  /\ p # none => o # p /\ o \notin Chain(p)
  /\ proto' = [proto EXCEPT ![o] = p]
  /\ NoteLayout(o, FALSE)
  /\ UNCHANGED <<op, tree, rootRefs, shape, priv, extensible, live, usedAsProto, store>>

(* A collection frees cells nothing that survives has for a prototype (an  *)
(* object may be unreachable otherwise at any time) and retires every way: *)
(* a holder is a raw pointer.                                              *)
Collect(dead) ==
  /\ Count
  /\ dead # {} /\ dead \subseteq live \ {store.obj}
  /\ \A o \in live \ dead : proto[o] \notin dead
  /\ live' = live \ dead
  /\ extensible' = extensible \ dead
  /\ usedAsProto' = usedAsProto \ dead
  /\ proto' = [o \in Objs |-> IF o \in dead THEN none ELSE proto[o]]
  /\ shape' = [o \in Objs |-> IF o \in dead THEN Root ELSE shape[o]]
  /\ priv' = [o \in Objs |-> IF o \in dead THEN <<>> ELSE priv[o]]
  /\ ways' = icEpochBump
  /\ UNCHANGED <<op, tree, rootRefs, store>>

(* newObject *)
New(o, p) ==
  /\ Count
  /\ o \notin live /\ p \in live \cup {none}
  /\ live' = live \cup {o}
  /\ extensible' = extensible \cup {o}
  /\ proto' = [proto EXCEPT ![o] = p]
  /\ rootRefs' = rootRefs + 1
  /\ UNCHANGED <<op, tree, shape, priv, usedAsProto, ways, store>>

-----------------------------------------------------------------------------
(* Property opcodes *)

(* GET_FIELD on a miss.  A getter may have run in between; what is recorded *)
(* is decided by the state it left.                                         *)
GetField(o) ==
  /\ op = "get" /\ Running /\ o \in live
  /\ \A i \in DOMAIN ways : ~ hit(ways[i], o)
  /\ icFillGet(o)
  /\ UNCHANGED <<op, objects, store, ops>>

(* icCachedStore through a way that creates the property. *)
CachedStore(o) ==
  \E i \in DOMAIN ways :
    LET w == ways[i]
    IN  /\ op = "put" /\ Running /\ o \in live
        /\ hit(w, o) /\ \A j \in 1 .. i - 1 : ~ hit(ways[j], o)
        /\ w.to # none /\ o \in extensible
        /\ shape' = [shape EXCEPT ![o] = w.to]
        /\ NoteLayout(o, FALSE)
        /\ UNCHANGED <<op, tree, rootRefs, priv, proto, extensible, live, usedAsProto, store, ops>>

MissedStore(o) ==
  /\ op = "put" /\ o \in live /\ store = NoStore
  /\ \A i \in DOMAIN ways :
       hit(ways[i], o) => ways[i].to # none /\ o \notin extensible

(* PUT_FIELD on a miss, into the slot the receiver already has. *)
PutOwn(o) ==
  LET own == Own(o, Name)
  IN  /\ MissedStore(o)
      /\ own # 0 /\ ~ Props(o)[own].acc /\ "W" \in Props(o)[own].attrs
      /\ icFillPut(o)
      /\ UNCHANGED <<op, objects, store, ops>>

(* PUT_FIELD on a miss that creates the property: setProp, then the fill,  *)
(* which sees the layout the store has made.                               *)
PutNew(o) ==
  /\ MissedStore(o)
  /\ Own(o, Name) = 0 /\ Clean(o) /\ o \in extensible
  /\ Spend(o)
  /\ defineOwn(o, Name, Default)
  /\ store' = [obj |-> o, pre |-> shape[o], code |-> FALSE]
  /\ UNCHANGED <<op, proto, extensible, live, usedAsProto>>

(* PUT_FIELD on a miss that finds a setter, own or up the chain: the setter *)
(* is code, and runs before the fill.                                       *)
PutSetter(o) ==
  LET n == IF Own(o, Name) # 0 THEN 0 ELSE FoundAt(o)
      h == Up(o, n)
  IN  /\ MissedStore(o)
      /\ n # 0 \/ Own(o, Name) # 0
      /\ Props(h)[Own(h, Name)].acc
      /\ store' = [obj |-> o, pre |-> shape[o], code |-> TRUE]
      /\ UNCHANGED <<op, objects, usedAsProto, ways, ops>>

(* The store has returned true: fill the site. *)
FillStore ==
  LET o == store.obj
  IN  /\ store # NoStore
      /\ IF shape[o] # store.pre THEN icFillPutTransition(o, store.pre) ELSE icFillPut(o)
      /\ store' = NoStore
      /\ UNCHANGED <<op, objects, ops>>

Next ==
  \/ \E o \in Objs :
       \/ \E k \in Keys : \/ \E attrs \in {Default, ReadOnly} : DefineOwn(o, k, attrs)
                          \/ DefineAccessor(o, k) \/ Delete(o, k)
       \/ Freeze(o, TRUE) \/ Freeze(o, FALSE) \/ PreventExtensions(o)
       \/ \E p \in Objs \cup {none} : SetProto(o, p) \/ New(o, p)
       \/ GetField(o) \/ CachedStore(o) \/ PutOwn(o) \/ PutNew(o) \/ PutSetter(o)
  \/ \E dead \in SUBSET Objs : Collect(dead)
  \/ FillStore

Spec == Init /\ [][Next]_vars

-----------------------------------------------------------------------------
(* Properties *)

Shapes == tree \cup Objs

TypeOK ==
  /\ Root \in tree
  /\ rootRefs \in Nat
  /\ shape \in [Objs -> Shapes]
  /\ proto \in [Objs -> Objs \cup {none}]
  /\ extensible \subseteq live /\ live \subseteq Objs
  /\ usedAsProto \subseteq live
  /\ Len(ways) <= Ways
  /\ store.obj \in live \cup {none}
  /\ ops \in 0 .. MaxOps

(* Where [[Get]] would find Name from o: the object and the slot. *)
LookedUp(o) ==
  LET n == IF Own(o, Name) # 0 THEN 0 ELSE FoundAt(o)
      h == Up(o, n)
  IN  [holder |-> IF n = 0 THEN o ELSE h, slot |-> Own(h, Name)]

(* A read the cache answers is the read [[Get]] would make: the same slot  *)
(* of the same object, and a data slot, whatever was defined, deleted,     *)
(* frozen, re-parented or collected since the way was filled               *)
(* (propcache.go hit/read against elements.go getField).                   *)
CachedReadIsLookup ==
  op = "get" => \A o \in live : \A i \in DOMAIN ways :
    LET w == ways[i]
    IN  hit(w, o) =>
          /\ LookedUp(o) = [holder |-> IF w.holder = none THEN o ELSE w.holder,
                            slot |-> w.slot]
          /\ ~ Props(LookedUp(o).holder)[w.slot].acc

(* A store the cache performs into a slot the receiver has is one [[Set]]  *)
(* would perform: the slot of the name, and a writable data slot.  A store  *)
(* that creates the property is one no setter and no read-only property up  *)
(* the chain would divert, it writes the slot the new layout gives the      *)
(* name, and every slot the receiver has keeps its key.  The new layout is  *)
(* the one [[Set]] would make, the stored property added and nothing else,  *)
(* when no setter ran during the store the way was filled by; when one did, *)
(* it may hold what the setter added (TransitionAddsTheName)                *)
(* (propcache.go icCachedStore against elements.go setFieldR).              *)
CachedStoreIsSet ==
  op = "put" => \A o \in live : \A i \in DOMAIN ways :
    LET w   == ways[i]
        own == Own(o, Name)
    IN  hit(w, o) =>
          IF w.to = none
          THEN own = w.slot /\ ~ Props(o)[own].acc /\ "W" \in Props(o)[own].attrs
          ELSE /\ own = 0 /\ Clean(o)
               /\ SlotOf(PropsOf(w.to), Name) = w.slot
               /\ \A j \in DOMAIN Props(o) : PropsOf(w.to)[j].key = Props(o)[j].key
               /\ ~ w.code => PropsOf(w.to) = addKey(Props(o), Name, Default)

(* No two objects stand on one private shape, whatever a store site handed  *)
(* on: an edit in place is an edit of one object (propcache.go:392).        *)
PrivateIsPrivate ==
  \A o \in Objs : shape[o] \in Objs => shape[o] = o

(* The root shape never looks private while an object stands on it: it      *)
(* would be edited in place under every empty object (shapes.go isInTree).  *)
RootStaysShared ==
  \A o \in live : shape[o] = Root => isInTree(Root)
(* An edit in place is an edit of one object's layout and never of a shape   *)
(* others stand on, whatever the store sites handed on (isInTree, shareable  *)
(* transitions of icFillPutTransition).                                      *)
EditsAreOwn == TypeOK /\ PrivateIsPrivate /\ RootStaysShared
=============================================================================
