----------------------------- MODULE MirrorProofs -----------------------------
(***************************************************************************)
(* FreshCursor, DeferredIsRetried and ImplementsMirror, for every value of *)
(* SyncManager's constants with MirrorConditions, as long as no two calls  *)
(* are about one item at a time.                                           *)
(*                                                                         *)
(* The argument is about versions.  Bytes tell them apart, so everything   *)
(* that holds bytes - a document, a revision in flight, an item to push -  *)
(* has a version, and so has every row.  The invariant orders them: a row  *)
(* is behind its document, the document behind what is in flight on it and *)
(* both behind what a call is about to write.                              *)
(***************************************************************************)
EXTENDS ReaperProofs, MirrorRefinement

DistinctVersions ==
    \A i \in Items, v, w \in Versions : Bytes[i][v] = Bytes[i][w] => v = w

MirrorConditions ==
    /\ OneLibrary
    /\ CanReturn = {} /\ Removable = {}
    /\ DistinctPayloads /\ DistinctVersions
    /\ \A i \in Items : Policy[i].on_changed = "replace"

\* Bytes b are those of a version of i up to v; from v on.
Until(i, b, v) == \E w \in Versions : w <= v /\ b = Bytes[i][w]
From(i, b, v)  == \E w \in Versions : v <= w /\ b = Bytes[i][w]

\* Bytes b are those of a version of i no later than the one bytes c are of.
Older(i, b, c) == \E v, w \in Versions : v <= w /\ b = Bytes[i][v] /\ c = Bytes[i][w]

ActiveOf(D, i) == {d \in DocIds : D[d].state = "active" /\ D[d].key = i}

\* Nothing that i's documents hold, or will when what is in flight is applied,
\* is later than v.
AtMost(D, O, i, v) ==
    \A d \in ActiveOf(D, i) :
        /\ Until(i, D[d].content, v)
        /\ \A k \in RevisionKeys : O[d][k] = "processing" => Until(i, k[2], v)

AtLeastOf(D, i, v) == \A d \in ActiveOf(D, i) : From(i, D[d].content, v)

-----------------------------------------------------------------------------
(* The invariant.                                                          *)

OneActive ==
    \A d, e \in DocIds : docs[d].state = "active" /\ docs[e].state = "active"
                            /\ docs[d].key = docs[e].key => d = e

Behind == \A i \in Items : AtMost(docs, op, i, version[i])

DeletedGone ==
    \A d \in DocIds : docs[d].state = "deleted" \/ op[d][Deletion] = "processing"
                         => Gone(docs[d].key)

OneInFlight ==
    \A d \in DocIds, k \in OpKeys : op[d][k] = "processing" =>
        /\ docs[d].state = "active"
        /\ \A l \in OpKeys : op[d][l] = "processing" => l = k

\* What is in flight goes forward, and so did what was applied.
Forward ==
    \A d \in DocIds : docs[d].state = "active" =>
        \A k \in RevisionKeys :
            /\ op[d][k] = "processing" => Older(docs[d].key, docs[d].content, k[2])
            /\ op[d][k] = "ready" => Older(docs[d].key, k[2], docs[d].content)

DocInv == OneActive /\ Behind /\ DeletedGone /\ OneInFlight /\ Forward

\* A row that says no more of i than there is.
GoodRow(D, V, i, row) ==
    /\ row.token <= V[i]
    /\ AtLeastOf(D, i, row.token)
    /\ row.doc # NoDoc
    /\ row.lib = Home

RowInv == \A i \in Items : Has(i) => GoodRow(docs, version, i, cursor[i])

\* x is an item a call is to push, of a version that nothing is ahead of.
Fits(C, D, O, V, t, x) ==
    \E v \in Versions :
       /\ x.payload = Bytes[x.item][v]
       /\ x.token <= v /\ v <= V[x.item]
       /\ AtMost(D, O, x.item, v)
       /\ C[x.item] # NoRow => C[x.item].token <= v
       /\ x.item = t.ref /\ t.before # NoRow => t.before.token <= v

\* The row does not say that the call's reference was handled.
NotYet(C, t) == C[t.ref] = NoRow \/ C[t.ref].token # t.token

\* A row names the document there is.
Known(C, D, i) == C[i] # NoRow => ActiveOf(D, i) \subseteq {C[i].doc}

\* What a call carries from one await to the next.
Carries(C, D, O, V, t) ==
    /\ t.token <= V[t.ref] /\ t.home = Home /\ t.lib = Home
    /\ \A k \in 1 .. Len(t.todo) : Fits(C, D, O, V, t, t.todo[k])
    /\ \A k \in 2 .. Len(t.todo) : t.todo[k].item \notin Primary
    /\ \A k, l \in 1 .. Len(t.todo) :
          t.todo[k].item = t.todo[l].item => t.todo[k].payload = t.todo[l].payload
    /\ t.before # NoRow => t.before.token # t.token /\ GoodRow(D, V, t.ref, t.before)

\* What it has found out where it is.
Placed(C, D, t) ==
    LET i == Subject(t)
    IN  /\ t.pc = "fetch" => t.before = NoRow /\ i = t.ref
        /\ t.pc = "fetch" /\ t.answer = "fetched" => Known(C, D, i)
        /\ t.pc = "item" => Known(C, D, i)
        /\ t.pc = "find" /\ t.answer = "absent" => ActiveOf(D, i) = {}
        /\ t.pc = "find" /\ t.answer = "found" =>
              t.got # NoDoc /\ ActiveOf(D, i) \subseteq {t.got}
        /\ t.pc = "create" => t.answer \in {"none", "created"}
        /\ t.pc = "create" /\ t.answer = "none" => ActiveOf(D, i) = {}
        /\ t.pc = "create" /\ t.answer = "created" =>
              /\ t.got # NoDoc /\ ActiveOf(D, i) \subseteq {t.got}
              /\ AtLeastOf(D, i, Head(t.todo).token)
        /\ t.pc \in {"revise", "poll"} => t.doc # NoDoc /\ ActiveOf(D, i) \subseteq {t.doc}
        /\ t.pc = "revise" /\ t.answer = "notfound" => ActiveOf(D, i) = {}

Sound(C, D, O, V, t) ==
    /\ t.pc # "lookup"
    /\ Busy(t) => t.ref \in Primary /\ t.token \in Versions
    /\ t.pc = "done" /\ t.deferred => NotYet(C, t)
    /\ t.pc \in PushPC => /\ Carries(C, D, O, V, t)
                          /\ IsPrimary(t) => NotYet(C, t)
                          /\ Placed(C, D, t)

TasksSound == \A p \in Tasks : Sound(cursor, docs, op, version, task[p])

\* Sweeps start calls about primary items only.
QueueInv == \A x \in waiting \cup strays : x.item \in Primary

Base == TypedSync /\ OwnInv /\ GoneInv

Mirroring == Base /\ DocInv /\ RowInv /\ TasksSound
MirrorInv == Mirroring /\ QueueInv

-----------------------------------------------------------------------------
(* Bytes and versions.                                                     *)

LEMMA ByteOrder ==
    ASSUME DistinctVersions, NEW i \in Items
    PROVE  /\ \A b, c : \A v \in Tokens : From(i, b, v) /\ Older(i, b, c) => From(i, c, v)
           /\ \A b : \A v, w \in Nat : Until(i, b, v) /\ v <= w => Until(i, b, w)
           /\ \A b, c, e : Older(i, b, c) /\ Older(i, c, e) => Older(i, b, e)
           /\ \A b : \A v \in Versions : Until(i, b, v) => Older(i, b, Bytes[i][v])
           /\ \A c : \A v \in Versions, u \in Tokens :
                 Older(i, Bytes[i][v], c) /\ u <= v => From(i, c, u)
<1>1. Versions \subseteq Nat /\ Tokens \subseteq Nat
  BY VersionAssumption DEF Versions, Tokens, NoToken
<1>2. ASSUME NEW b, NEW c, NEW v \in Tokens, From(i, b, v), Older(i, b, c)
      PROVE  From(i, c, v)
  <2>1. PICK w \in Versions : v <= w /\ b = Bytes[i][w]
    BY <1>2 DEF From
  <2>2. PICK x, y \in Versions : x <= y /\ b = Bytes[i][x] /\ c = Bytes[i][y]
    BY <1>2 DEF Older
  <2>3. w = x
    BY <2>1, <2>2 DEF DistinctVersions
  <2>4. v <= y
    BY <1>1, <2>1, <2>2, <2>3
  <2>5. QED
    BY <2>2, <2>4 DEF From
<1>3. ASSUME NEW b, NEW v \in Nat, NEW w \in Nat, Until(i, b, v), v <= w
      PROVE  Until(i, b, w)
  BY <1>1, <1>3 DEF Until
<1>4. ASSUME NEW b, NEW c, NEW e, Older(i, b, c), Older(i, c, e)
      PROVE  Older(i, b, e)
  <2>1. PICK v, w \in Versions : v <= w /\ b = Bytes[i][v] /\ c = Bytes[i][w]
    BY <1>4 DEF Older
  <2>2. PICK x, y \in Versions : x <= y /\ c = Bytes[i][x] /\ e = Bytes[i][y]
    BY <1>4 DEF Older
  <2>3. w = x
    BY <2>1, <2>2 DEF DistinctVersions
  <2>4. v <= y
    BY <1>1, <2>1, <2>2, <2>3
  <2>5. QED
    BY <2>1, <2>2, <2>4 DEF Older
<1>5. ASSUME NEW b, NEW v \in Versions, Until(i, b, v)
      PROVE  Older(i, b, Bytes[i][v])
  BY <1>5 DEF Until, Older
<1>6. ASSUME NEW c, NEW v \in Versions, NEW u \in Tokens, Older(i, Bytes[i][v], c), u <= v
      PROVE  From(i, c, u)
  <2>1. PICK x, y \in Versions : x <= y /\ Bytes[i][v] = Bytes[i][x] /\ c = Bytes[i][y]
    BY <1>6 DEF Older
  <2>2. v = x
    BY <2>1 DEF DistinctVersions
  <2>3. u <= y
    BY <1>1, <1>6, <2>1, <2>2
  <2>4. QED
    BY <2>1, <2>3 DEF From
<1>7. QED
  BY <1>2, <1>3, <1>4, <1>5, <1>6

LEMMA AtMostGrows ==
    ASSUME DistinctVersions, NEW D, NEW O, NEW i \in Items, NEW v \in Nat, NEW w \in Nat,
           v <= w, AtMost(D, O, i, v)
    PROVE  AtMost(D, O, i, w)
  BY ByteOrder DEF AtMost

\* What is not in service holds no document id of an item.
LEMMA DocFacts ==
    ASSUME Base, DocInv
    PROVE  /\ docs \in [DocIds -> Document] /\ op \in [DocIds -> [OpKeys -> Status]]
           /\ version \in [Items -> Versions] /\ cursor \in [Items -> Row \cup {NoRow}]
           /\ RevisionKeys \subseteq OpKeys /\ Deletion \in OpKeys /\ Deletion \notin RevisionKeys
           /\ Versions \subseteq Nat /\ Tokens \subseteq Nat /\ Versions \subseteq Tokens
           /\ \A d \in DocIds : docs[d].state # "free" => docs[d].key \in Items /\ docs[d].lib = Home
           /\ \A d \in DocIds : docs[d].state = "free" => docs[d].key = NoDoc
           /\ \A d \in DocIds : docs[d].state = "free" => \A k \in OpKeys : op[d][k] = "none"
           /\ \A d \in DocIds : docs[d].state \in {"free", "active", "deleted"}
<1>1. TypeInv /\ GoneInv /\ OwnInv
  BY DEF Base, TypedSync
<1>2. Versions \subseteq Nat /\ Tokens \subseteq Nat /\ Versions \subseteq Tokens
  BY VersionAssumption DEF Versions, Tokens, NoToken
<1>3. /\ docs \in [DocIds -> Document] /\ op \in [DocIds -> [OpKeys -> Status]]
      /\ version \in [Items -> Versions] /\ cursor \in [Items -> Row \cup {NoRow}]
  BY <1>1 DEF TypeInv, IronRagTypeOK, SourceOK, Local, CursorTypeOK
<1>4. \A d \in DocIds : docs[d].state \in {"free", "active", "deleted"}
  BY <1>3 DEF Document
<1>5. RevisionKeys \subseteq OpKeys /\ Deletion \in OpKeys /\ Deletion \notin RevisionKeys
  BY DeletionAssumption DEF OpKeys
<1>6. QED
  BY <1>1, <1>2, <1>3, <1>4, <1>5 DEF GoneInv, Unborn, DocsHome, OwnInv, DocsOwned

-----------------------------------------------------------------------------
(* Documents.  A step is calm for an item when it leaves true whatever a   *)
(* call about that item has found out.                                     *)

DocCalm(i) ==
    /\ version[i] <= version'[i]
    /\ ActiveOf(docs', i) \subseteq ActiveOf(docs, i)
    /\ \A v \in Nat : AtMost(docs, op, i, v) => AtMost(docs', op', i, v)
    /\ \A v \in Tokens : AtLeastOf(docs, i, v) => AtLeastOf(docs', i, v)

GoneRemain == \A i \in Items : ~live[i] => ~live'[i]

LEMMA StillDocs ==
    ASSUME MirrorConditions, Base, DocInv, UNCHANGED <<docs, op>>, GoneRemain,
           \A i \in Items : version'[i] \in Nat /\ version[i] <= version'[i]
    PROVE  DocInv' /\ \A i \in Items : DocCalm(i)
<1>1. /\ \A i \in Items : version[i] \in Nat
      /\ \A d \in DocIds : docs[d].state = "free" => \A k \in OpKeys : op[d][k] = "none"
      /\ \A d \in DocIds : docs[d].state # "free" => docs[d].key \in Items
      /\ Deletion \in OpKeys /\ DistinctVersions
  BY DocFacts DEF MirrorConditions
<1>2. \A i \in Items : DocCalm(i)
  BY DEF DocCalm, AtMost, AtLeastOf, ActiveOf
<1>3. Behind'
  <2>1. ASSUME NEW i \in Items
        PROVE  AtMost(docs', op', i, version'[i])
    <3>1. AtMost(docs', op', i, version[i])
      BY DEF DocInv, Behind, AtMost, ActiveOf
    <3>2. QED
      BY <1>1, <3>1, AtMostGrows
  <2>2. QED
    BY <2>1 DEF Behind
<1>4. DeletedGone'
  BY <1>1 DEF DocInv, DeletedGone, Gone, GoneRemain
<1>5. OneActive' /\ OneInFlight' /\ Forward'
  BY DEF DocInv, OneActive, OneInFlight, Forward
<1>6. QED
  BY <1>2, <1>3, <1>4, <1>5 DEF DocInv

\* A revision is applied: the document goes forward.
LEMMA ApplyRevision ==
    ASSUME MirrorConditions, Base, DocInv, NEW d \in DocIds, NEW k \in RevisionKeys,
           Apply(d, k), UNCHANGED <<version, live>>
    PROVE  DocInv' /\ \A i \in Items : DocCalm(i)
<1> USE DocFacts
<1>1. /\ DistinctVersions /\ k \in OpKeys /\ k # Deletion
      /\ op[d][k] = "processing" /\ docs[d].state = "active"
      /\ docs[d].key \in Items
  BY DEF MirrorConditions, Apply, DocInv, OneInFlight
<1>2. /\ docs' = [docs EXCEPT ![d].content = k[2]]
      /\ op' = [op EXCEPT ![d][k] = "ready"]
  BY <1>1 DEF Apply
<1>3. \A e \in DocIds :
         /\ docs'[e].state = docs[e].state /\ docs'[e].key = docs[e].key
         /\ docs'[e].content = IF e = d THEN k[2] ELSE docs[e].content
  <2>1. docs' = [docs EXCEPT ![d] = [docs[d] EXCEPT !.content = k[2]]]
    BY <1>2
  <2>2. \A r \in Document : LET s == [r EXCEPT !.content = k[2]]
                            IN  s.state = r.state /\ s.key = r.key /\ s.content = k[2]
    BY DEF Document
  <2>3. QED
    BY <2>1, <2>2
<1>4. \A e \in DocIds, l \in OpKeys :
         op'[e][l] = IF e = d /\ l = k THEN "ready" ELSE op[e][l]
  BY <1>1, <1>2
<1>5. Older(docs[d].key, docs[d].content, k[2])
  BY <1>1 DEF DocInv, Forward
<1>6. ASSUME NEW i \in Items
      PROVE  DocCalm(i)
  <2>1. ActiveOf(docs', i) = ActiveOf(docs, i)
    BY <1>3 DEF ActiveOf
  <2>2. ASSUME NEW v \in Nat, AtMost(docs, op, i, v)
        PROVE  AtMost(docs', op', i, v)
    <3>1. ASSUME NEW e \in ActiveOf(docs', i)
          PROVE  /\ Until(i, docs'[e].content, v)
                 /\ \A l \in RevisionKeys : op'[e][l] = "processing" => Until(i, l[2], v)
      <4>1. /\ e \in DocIds /\ Until(i, docs[e].content, v)
            /\ \A l \in RevisionKeys : op[e][l] = "processing" => Until(i, l[2], v)
        BY <2>1, <2>2, <3>1 DEF ActiveOf, AtMost
      <4>2. \A l \in RevisionKeys : op'[e][l] = "processing" => op[e][l] = "processing"
        BY <1>4, <4>1
      <4>3. Until(i, docs'[e].content, v)
        BY <1>1, <1>3, <4>1
      <4>4. QED
        BY <4>1, <4>2, <4>3
    <3>2. QED
      BY <3>1 DEF AtMost
  <2>3. ASSUME NEW v \in Tokens, AtLeastOf(docs, i, v)
        PROVE  AtLeastOf(docs', i, v)
    <3>1. ASSUME NEW e \in ActiveOf(docs', i)
          PROVE  From(i, docs'[e].content, v)
      <4>1. e \in DocIds /\ docs[e].key = i /\ From(i, docs[e].content, v)
        BY <2>1, <2>3, <3>1 DEF ActiveOf, AtLeastOf
      <4>2. CASE e = d
        BY <1>1, <1>3, <1>5, <2>3, <4>1, <4>2, ByteOrder
      <4>3. QED
        BY <1>3, <4>1, <4>2
    <3>2. QED
      BY <3>1 DEF AtLeastOf
  <2>4. QED
    BY <2>1, <2>2, <2>3 DEF DocCalm
<1>7. OneActive' /\ DeletedGone' /\ OneInFlight'
  <2>1. OneActive'
    BY <1>3 DEF DocInv, OneActive
  <2>2. DeletedGone'
    BY <1>1, <1>3, <1>4 DEF DocInv, DeletedGone, Gone
  <2>3. OneInFlight'
    BY <1>3, <1>4 DEF DocInv, OneInFlight
  <2>4. QED
    BY <2>1, <2>2, <2>3
<1>8. Behind'
  BY <1>6 DEF DocInv, Behind, DocCalm
<1>9. Forward'
  <2>1. ASSUME NEW e \in DocIds, docs'[e].state = "active", NEW l \in RevisionKeys
        PROVE  /\ op'[e][l] = "processing" => Older(docs'[e].key, docs'[e].content, l[2])
               /\ op'[e][l] = "ready" => Older(docs'[e].key, l[2], docs'[e].content)
    <3>1. CASE e # d
      BY <1>3, <1>4, <2>1, <3>1 DEF DocInv, Forward
    <3>2. CASE e = d
      <4>1. op'[d][l] # "processing"
        BY <1>1, <1>4 DEF DocInv, OneInFlight
      <4>2. op'[d][l] = "ready" => l = k \/ Older(docs[d].key, l[2], docs[d].content)
        BY <1>1, <1>4 DEF DocInv, Forward
      <4>3. Older(docs[d].key, k[2], k[2])
        BY <1>5, VersionAssumption DEF Older, Versions
      <4>4. op'[d][l] = "ready" => Older(docs[d].key, l[2], k[2])
        BY <1>1, <1>5, <4>2, <4>3, ByteOrder
      <4>5. QED
        BY <1>3, <3>2, <4>1, <4>4
    <3>3. QED
      BY <3>1, <3>2
  <2>2. QED
    BY <2>1 DEF Forward
<1>10. QED
  BY <1>6, <1>7, <1>8, <1>9 DEF DocInv

\* A document whose item is gone is deleted.
LEMMA ApplyDeletion ==
    ASSUME MirrorConditions, Base, DocInv, NEW d \in DocIds,
           Apply(d, Deletion), UNCHANGED <<version, live>>
    PROVE  DocInv' /\ \A i \in Items : DocCalm(i)
<1> USE DocFacts
<1>1. /\ op[d][Deletion] = "processing" /\ docs[d].state = "active"
      /\ docs[d].key \in Items /\ Gone(docs[d].key)
      /\ Bury(d) /\ op' = [op EXCEPT ![d] = Ended(d, Deletion, "ready")]
  BY DEF Apply, DocInv, OneInFlight, DeletedGone
<1>2. RagOK
  BY DEF Base, TypedSync, TypeInv, RagOK
<1>3. \A e \in DocIds :
         /\ docs'[e].key = docs[e].key
         /\ docs'[e].state = IF e = d THEN "deleted" ELSE docs[e].state
         /\ docs'[e].content = IF e = d THEN NoPayload ELSE docs[e].content
  BY <1>1, <1>2, BuryType
<1>4. /\ \A e \in DocIds : e # d => op'[e] = op[e]
      /\ \A l \in OpKeys : op'[d][l] # "processing"
  BY <1>1 DEF Ended
<1>5. ASSUME NEW i \in Items
      PROVE  DocCalm(i)
  <2>1. ActiveOf(docs', i) = ActiveOf(docs, i) \ {d}
    BY <1>3 DEF ActiveOf
  <2>2. \A e \in ActiveOf(docs', i) : docs'[e].content = docs[e].content /\ op'[e] = op[e]
    BY <1>3, <1>4, <2>1 DEF ActiveOf
  <2>3. QED
    BY <2>1, <2>2 DEF DocCalm, AtMost, AtLeastOf
<1>6. OneActive'
  BY <1>3 DEF DocInv, OneActive
<1>7. DeletedGone'
  BY <1>1, <1>3, <1>4 DEF DocInv, DeletedGone, Gone
<1>8. OneInFlight'
  BY <1>3, <1>4 DEF DocInv, OneInFlight
<1>9. Behind'
  BY <1>5 DEF DocInv, Behind, DocCalm
<1>10. Forward'
  BY <1>3, <1>4 DEF DocInv, Forward
<1>11. QED
  BY <1>5, <1>6, <1>7, <1>8, <1>9, <1>10 DEF DocInv

\* Operations end without effect.
LEMMA OpsEnd ==
    ASSUME MirrorConditions, Base, DocInv, UNCHANGED <<docs, version, live>>,
           \A d \in DocIds, k \in OpKeys :
              /\ op'[d][k] = "processing" => op[d][k] = "processing"
              /\ op'[d][k] = "ready" => op[d][k] = "ready"
    PROVE  DocInv' /\ \A i \in Items : DocCalm(i)
<1>1. RevisionKeys \subseteq OpKeys /\ Deletion \in OpKeys /\ \A i \in Items : version[i] \in Nat
  BY DocFacts
<1>2. \A i \in Items : DocCalm(i)
  BY <1>1 DEF DocCalm, AtMost, AtLeastOf, ActiveOf
<1>3. Behind'
  BY <1>1, <1>2 DEF DocInv, Behind, DocCalm
<1>4. OneActive' /\ DeletedGone'
  BY <1>1 DEF DocInv, OneActive, DeletedGone, Gone
<1>5. OneInFlight'
  BY <1>1 DEF DocInv, OneInFlight
<1>6. Forward'
  BY <1>1 DEF DocInv, Forward
<1>7. QED
  BY <1>2, <1>3, <1>4, <1>5, <1>6 DEF DocInv

LEMMA AbandonStep ==
    ASSUME MirrorConditions, Base, DocInv, NEW d \in DocIds, NEW k \in OpKeys, NEW s,
           Abandon(d, k, s), UNCHANGED <<version, live>>
    PROVE  DocInv' /\ \A i \in Items : DocCalm(i)
<1>1. op \in [DocIds -> [OpKeys -> Status]]
  BY DocFacts
<1>2. op' = [op EXCEPT ![d][k] = s] /\ s \in {"failed", "canceled"} /\ UNCHANGED docs
  BY DEF Abandon
<1>3. \A e \in DocIds, l \in OpKeys : op'[e][l] = IF e = d /\ l = k THEN s ELSE op[e][l]
  BY <1>1, <1>2
<1>4. QED
  BY <1>2, <1>3, OpsEnd

LEMMA AdmitOps ==
    ASSUME op \in [DocIds -> [OpKeys -> Status]], NEW d \in DocIds, NEW k \in OpKeys, Admit(d, k)
    PROVE  /\ UNCHANGED docs /\ docs[d].state = "active" /\ op[d][Deletion] # "processing"
           /\ \A e \in DocIds : e # d => op'[e] = op[e]
           /\ op'[d][k] = "processing"
           /\ \A l \in OpKeys : l # k => op'[d][l] # "processing"
           /\ \A l \in OpKeys : op'[d][l] = "ready" => op[d][l] = "ready"
<1>1. op'[d] = [x \in OpKeys |->
                  IF x = k THEN "processing"
                  ELSE IF op[d][x] = "processing" THEN "superseded" ELSE op[d][x]]
  BY DEF Admit
<1>2. \A e \in DocIds : e # d => op'[e] = op[e]
  BY DEF Admit
<1>3. QED
  BY <1>1, <1>2 DEF Admit, Active

\* A revision that goes forward is admitted.
LEMMA AdmitRevision ==
    ASSUME MirrorConditions, Base, DocInv, NEW d \in DocIds, NEW k \in RevisionKeys,
           Admit(d, k), UNCHANGED <<version, live>>,
           Until(docs[d].key, k[2], version[docs[d].key]),
           Older(docs[d].key, docs[d].content, k[2])
    PROVE  /\ DocInv' /\ UNCHANGED docs
           /\ \A i \in Items : i # docs[d].key => DocCalm(i)
           /\ \A i \in Items, v \in Nat :
                 AtMost(docs, op, i, v) /\ Until(i, k[2], v) => AtMost(docs', op', i, v)
<1>1. /\ RevisionKeys \subseteq OpKeys /\ Deletion \in OpKeys /\ Deletion \notin RevisionKeys
      /\ \A i \in Items : version[i] \in Nat
      /\ op \in [DocIds -> [OpKeys -> Status]]
  BY DocFacts
<1>2. /\ UNCHANGED docs /\ docs[d].state = "active" /\ op[d][Deletion] # "processing"
      /\ \A e \in DocIds : e # d => op'[e] = op[e]
      /\ op'[d][k] = "processing"
      /\ \A l \in OpKeys : l # k => op'[d][l] # "processing"
      /\ \A l \in OpKeys : op'[d][l] = "ready" => op[d][l] = "ready"
  BY <1>1, AdmitOps
<1>3. \A i \in Items : i # docs[d].key => DocCalm(i)
  BY <1>1, <1>2 DEF DocCalm, AtMost, AtLeastOf, ActiveOf
<1>4. ASSUME NEW i \in Items, NEW v \in Nat, AtMost(docs, op, i, v), Until(i, k[2], v)
      PROVE  AtMost(docs', op', i, v)
  <2>1. ASSUME NEW e \in ActiveOf(docs', i)
        PROVE  /\ Until(i, docs'[e].content, v)
               /\ \A l \in RevisionKeys : op'[e][l] = "processing" => Until(i, l[2], v)
    <3>1. /\ e \in DocIds /\ e \in ActiveOf(docs, i)
          /\ Until(i, docs'[e].content, v)
          /\ \A l \in RevisionKeys : op[e][l] = "processing" => Until(i, l[2], v)
      BY <1>2, <1>4, <2>1 DEF AtMost, ActiveOf
    <3>2. \A l \in RevisionKeys : op'[e][l] = "processing" => l = k \/ op[e][l] = "processing"
      BY <1>1, <1>2, <3>1
    <3>3. QED
      BY <1>4, <3>1, <3>2
  <2>2. QED
    BY <2>1 DEF AtMost
<1>5. Behind'
  <2>1. ASSUME NEW i \in Items
        PROVE  AtMost(docs', op', i, version[i])
    <3>1. CASE i = docs[d].key
      BY <1>1, <1>4, <3>1 DEF DocInv, Behind
    <3>2. CASE i # docs[d].key
      BY <1>1, <1>3, <3>2 DEF DocInv, Behind, DocCalm
    <3>3. QED
      BY <3>1, <3>2
  <2>2. QED
    BY <2>1 DEF Behind
<1>6. OneActive' /\ DeletedGone'
  <2>1. \A e \in DocIds : op'[e][Deletion] = "processing" => op[e][Deletion] = "processing"
    BY <1>1, <1>2
  <2>2. QED
    BY <1>2, <2>1 DEF DocInv, OneActive, DeletedGone, Gone
<1>7. OneInFlight'
  BY <1>1, <1>2 DEF DocInv, OneInFlight
<1>8. Forward'
  BY <1>1, <1>2 DEF DocInv, Forward
<1>9. QED
  BY <1>2, <1>3, <1>4, <1>5, <1>6, <1>7, <1>8 DEF DocInv

\* A deletion is admitted: what was in flight before it is superseded.
LEMMA AdmitDeletion ==
    ASSUME MirrorConditions, Base, DocInv, NEW d \in DocIds,
           Admit(d, Deletion), UNCHANGED <<version, live>>, Gone(docs[d].key)
    PROVE  DocInv' /\ \A i \in Items : DocCalm(i)
<1>1. /\ RevisionKeys \subseteq OpKeys /\ Deletion \in OpKeys /\ Deletion \notin RevisionKeys
      /\ \A i \in Items : version[i] \in Nat
      /\ op \in [DocIds -> [OpKeys -> Status]]
  BY DocFacts
<1>2. /\ UNCHANGED docs /\ docs[d].state = "active"
      /\ \A e \in DocIds : e # d => op'[e] = op[e]
      /\ \A l \in OpKeys : l # Deletion => op'[d][l] # "processing"
      /\ \A l \in OpKeys : op'[d][l] = "ready" => op[d][l] = "ready"
  BY <1>1, AdmitOps
<1>3. \A e \in DocIds, l \in RevisionKeys : op'[e][l] = "processing" => op[e][l] = "processing"
  BY <1>1, <1>2
<1>4. \A i \in Items : DocCalm(i)
  BY <1>1, <1>2, <1>3 DEF DocCalm, AtMost, AtLeastOf, ActiveOf
<1>5. Behind'
  BY <1>2, <1>3 DEF DocInv, Behind, AtMost, ActiveOf
<1>6. OneActive' /\ DeletedGone'
  BY <1>1, <1>2 DEF DocInv, OneActive, DeletedGone, Gone
<1>7. OneInFlight'
  BY <1>1, <1>2 DEF DocInv, OneInFlight
<1>8. Forward'
  BY <1>1, <1>2, <1>3 DEF DocInv, Forward
<1>9. QED
  BY <1>4, <1>5, <1>6, <1>7, <1>8 DEF DocInv

\* A document is created for an item that has none.
LEMMA CreateDocument ==
    ASSUME MirrorConditions, Base, DocInv, NEW i \in Items, NEW v \in Versions, NEW d,
           AddDocument(Home, i, Bytes[i][v], d), ActiveOf(docs, i) = {}, v <= version[i],
           UNCHANGED <<version, live>>
    PROVE  /\ d \in DocIds /\ docs[d].state = "free"
           /\ docs' = [docs EXCEPT ![d] = [state |-> "active", lib |-> Home, key |-> i,
                                           content |-> Bytes[i][v]]]
           /\ DocInv'
           /\ \A j \in Items : j # i => DocCalm(j)
           /\ ActiveOf(docs', i) = {d}
           /\ \A w \in Nat : v <= w => AtMost(docs', op', i, w)
           /\ \A w \in Nat : w <= v => AtLeastOf(docs', i, w)
<1> DEFINE new == [state |-> "active", lib |-> Home, key |-> i, content |-> Bytes[i][v]]
<1>1. /\ docs \in [DocIds -> Document] /\ op \in [DocIds -> [OpKeys -> Status]]
      /\ RevisionKeys \subseteq OpKeys /\ Deletion \in OpKeys
      /\ \A j \in Items : version[j] \in Nat
      /\ Versions \subseteq Nat
      /\ \A e \in DocIds : docs[e].state = "free" => \A k \in OpKeys : op[e][k] = "none"
  BY DocFacts
<1>2. /\ new.state = "active" /\ new.key = i /\ new.content = Bytes[i][v]
      /\ d \in DocIds /\ docs[d].state = "free" /\ docs' = [docs EXCEPT ![d] = new]
      /\ UNCHANGED op
  <2>1. d \in Free
    BY DEF AddDocument
  <2>2. QED
    BY <2>1 DEF AddDocument, Free
<1> HIDE DEF new
<1>3. \A e \in DocIds : docs'[e] = IF e = d THEN new ELSE docs[e]
  BY <1>1, <1>2
<1>4. \A e \in DocIds : e # d => docs'[e] = docs[e]
  BY <1>3
<1>5. /\ docs'[d].state = "active" /\ docs'[d].key = i /\ docs'[d].content = Bytes[i][v]
      /\ \A k \in OpKeys : op[d][k] = "none"
  BY <1>1, <1>2, <1>3
<1>6. ActiveOf(docs', i) = {d}
  BY <1>2, <1>4, <1>5 DEF ActiveOf
<1>7. \A j \in Items : j # i => ActiveOf(docs', j) = ActiveOf(docs, j) /\ d \notin ActiveOf(docs', j)
  BY <1>2, <1>4, <1>5 DEF ActiveOf
<1>8. ASSUME NEW w \in Nat, v <= w
      PROVE  AtMost(docs', op', i, w)
  BY <1>1, <1>2, <1>5, <1>6, <1>8 DEF AtMost, Until
<1>9. ASSUME NEW w \in Nat, w <= v
      PROVE  AtLeastOf(docs', i, w)
  BY <1>5, <1>6, <1>9 DEF AtLeastOf, From
<1>10. ASSUME NEW j \in Items, j # i
       PROVE  DocCalm(j)
  <2>1. \A e \in ActiveOf(docs', j) : e \in ActiveOf(docs, j) /\ docs'[e] = docs[e]
    BY <1>4, <1>7, <1>10 DEF ActiveOf
  <2>2. \A w \in Nat : AtMost(docs, op, j, w) => AtMost(docs', op', j, w)
    BY <1>2, <2>1 DEF AtMost
  <2>3. \A w \in Tokens : AtLeastOf(docs, j, w) => AtLeastOf(docs', j, w)
    BY <2>1 DEF AtLeastOf
  <2>4. QED
    BY <1>1, <1>7, <1>10, <2>2, <2>3 DEF DocCalm
<1>11. OneActive'
  <2>1. \A e \in DocIds : docs[e].state = "active" => docs[e].key # i
    BY DEF ActiveOf
  <2>2. QED
    BY <1>4, <1>5, <2>1 DEF DocInv, OneActive
<1>12. Behind'
  <2>1. ASSUME NEW j \in Items
        PROVE  AtMost(docs', op', j, version[j])
    <3>1. CASE j = i
      BY <1>1, <1>8, <3>1
    <3>2. CASE j # i
      BY <1>1, <1>10, <3>2 DEF DocInv, Behind, DocCalm
    <3>3. QED
      BY <3>1, <3>2
  <2>2. QED
    BY <2>1 DEF Behind
<1>13. DeletedGone'
  BY <1>1, <1>2, <1>4, <1>5 DEF DocInv, DeletedGone, Gone
<1>14. OneInFlight'
  BY <1>2, <1>4, <1>5 DEF DocInv, OneInFlight
<1>15. Forward'
  BY <1>1, <1>2, <1>4, <1>5 DEF DocInv, Forward
<1>16. QED
  BY <1>2, <1>6, <1>8, <1>9, <1>10, <1>11, <1>12, <1>13, <1>14, <1>15 DEF DocInv, new

-----------------------------------------------------------------------------
(* Rows and calls.                                                         *)

\* A row stays, goes, or is written by the seeder, which claims no version and
\* names the document there is.
RowCalm(i) ==
    \/ cursor'[i] \in {NoRow, cursor[i]}
    \/ cursor'[i].token = NoToken /\ Known(cursor', docs', i)

Calm(i) == DocCalm(i) /\ RowCalm(i)

LEMMA ConcernsFacts ==
    ASSUME NEW t \in Task
    PROVE  /\ Subject(t) \in Concerns(t) /\ t.ref \in Concerns(t)
           /\ Len(t.todo) \in Nat
           /\ \A k \in 1 .. Len(t.todo) : t.todo[k] \in SourceItem /\ t.todo[k].item \in Concerns(t)
           /\ Concerns(t) \subseteq Items
           /\ t.todo # <<>> => 1 \in 1 .. Len(t.todo) /\ Head(t.todo) = t.todo[1]
<1>1. t.todo \in Seq(SourceItem) /\ t.ref \in Items
  BY DEF Task
<1>2. Len(t.todo) \in Nat /\ \A k \in 1 .. Len(t.todo) : t.todo[k] \in SourceItem
  BY <1>1, LenProperties, ElementOfSeq
<1>3. t.todo # <<>> => 1 \in 1 .. Len(t.todo) /\ Head(t.todo) = t.todo[1]
  BY <1>1, EmptySeq, HeadTailProperties, LenProperties
<1>4. QED
  BY <1>1, <1>2, <1>3, SubjectType DEF Concerns, SourceItem, Subject

LEMMA GoodRowCalm ==
    ASSUME NEW i \in Items, DocCalm(i), NEW row \in Row,
           version[i] \in Nat, version'[i] \in Nat, GoodRow(docs, version, i, row)
    PROVE  GoodRow(docs', version', i, row)
<1>1. row.token \in Tokens /\ row.token \in Nat
  BY VersionAssumption DEF Row, Tokens, NoToken, Versions
<1>2. QED
  BY <1>1 DEF GoodRow, DocCalm

LEMMA FitsCalm ==
    ASSUME NEW t \in Task, NEW x \in SourceItem, Calm(x.item), Versions \subseteq Nat,
           version[x.item] \in Nat, version'[x.item] \in Nat,
           Fits(cursor, docs, op, version, t, x)
    PROVE  Fits(cursor', docs', op', version', t, x)
<1>1. PICK v \in Versions :
         /\ x.payload = Bytes[x.item][v]
         /\ x.token <= v /\ v <= version[x.item]
         /\ AtMost(docs, op, x.item, v)
         /\ cursor[x.item] # NoRow => cursor[x.item].token <= v
         /\ x.item = t.ref /\ t.before # NoRow => t.before.token <= v
  BY DEF Fits
<1>2. v \in Nat /\ v <= version'[x.item] /\ AtMost(docs', op', x.item, v)
  <2>1. v \in Nat /\ version[x.item] <= version'[x.item]
    BY DEF Calm, DocCalm
  <2>2. v <= version'[x.item]
    BY <1>1, <2>1
  <2>3. AtMost(docs', op', x.item, v)
    BY <1>1, <2>1 DEF Calm, DocCalm
  <2>4. QED
    BY <2>1, <2>2, <2>3
<1>3. cursor'[x.item] # NoRow => cursor'[x.item].token <= v
  BY <1>1, <1>2 DEF Calm, RowCalm, NoToken
<1>4. QED
  BY <1>1, <1>2, <1>3 DEF Fits

\* What a call has found out stays true through a step that is calm for every
\* item the call is about.
LEMMA SoundCalm ==
    ASSUME NEW t \in Task, WellFormed(t),
           version \in [Items -> Versions], version' \in [Items -> Versions],
           Sound(cursor, docs, op, version, t), Busy(t) => \A i \in Concerns(t) : Calm(i)
    PROVE  Sound(cursor', docs', op', version', t)
<1> DEFINE i == Subject(t)
<1>1. /\ i \in Concerns(t) /\ i \in Items /\ t.ref \in Concerns(t) /\ t.ref \in Items
      /\ \A k \in 1 .. Len(t.todo) : t.todo[k] \in SourceItem /\ t.todo[k].item \in Concerns(t)
      /\ Concerns(t) \subseteq Items
      /\ Versions \subseteq Nat
      /\ t.before # NoRow => t.before \in Row
      /\ t.todo # <<>> => Head(t.todo) \in SourceItem
  BY ConcernsFacts, SubjectType, VersionAssumption DEF Task, Versions
<1> HIDE DEF i
<1>2. CASE ~Busy(t)
  BY <1>2 DEF Sound, Busy
<1>3. CASE Busy(t)
  <2>1. t.ref \in Primary /\ t.token \in Versions /\ t.token # NoToken /\ t.token \in Nat
    BY <1>1, <1>3 DEF Sound, Versions, NoToken
  <2>2. Calm(t.ref) /\ Calm(i)
    BY <1>1, <1>3
  <2>3. NotYet(cursor, t) => NotYet(cursor', t)
    BY <2>1, <2>2 DEF NotYet, Calm, RowCalm
  <2>4. Known(cursor, docs, i) => Known(cursor', docs', i)
    BY <2>2 DEF Known, Calm, RowCalm, DocCalm
  <2>5. ASSUME Carries(cursor, docs, op, version, t)
        PROVE  Carries(cursor', docs', op', version', t)
    <3>1. t.token <= version'[t.ref]
      <4>1. t.token <= version[t.ref] /\ version[t.ref] <= version'[t.ref]
        BY <2>2, <2>5 DEF Carries, Calm, DocCalm
      <4>2. version[t.ref] \in Nat /\ version'[t.ref] \in Nat
        BY <1>1
      <4>3. QED
        BY <2>1, <4>1, <4>2
    <3>2. \A k \in 1 .. Len(t.todo) : Fits(cursor', docs', op', version', t, t.todo[k])
      BY <1>1, <1>3, <2>5, FitsCalm DEF Carries
    <3>3. t.before # NoRow => GoodRow(docs', version', t.ref, t.before)
      BY <1>1, <2>2, <2>5, GoodRowCalm DEF Carries, Calm
    <3>4. QED
      BY <2>5, <3>1, <3>2, <3>3 DEF Carries
  <2>6. ASSUME Placed(cursor, docs, t)
        PROVE  Placed(cursor', docs', t)
    <3>1. ActiveOf(docs', i) \subseteq ActiveOf(docs, i)
      BY <2>2 DEF Calm, DocCalm
    <3>2. t.pc = "create" /\ AtLeastOf(docs, i, Head(t.todo).token)
             => AtLeastOf(docs', i, Head(t.todo).token)
      BY <1>1, <2>2 DEF WellFormed, SourceItem, Calm, DocCalm
    <3>3. QED
      BY <2>4, <2>6, <3>1, <3>2 DEF Placed, i
  <2>7. QED
    BY <1>3, <2>1, <2>3, <2>5, <2>6 DEF Sound, Busy
<1>4. QED
  BY <1>2, <1>3

\* What a step keeps of the invariant, beside what other modules prove.
Kept == DocInv' /\ RowInv' /\ TasksSound'

LEMMA TasksStep ==
    ASSUME Base, TasksSound, version' \in [Items -> Versions], NEW p \in Tasks, NEW u,
           Become(p, u), Sound(cursor', docs', op', version', u),
           \A q \in Tasks \ {p} : Busy(task[q]) => \A i \in Concerns(task[q]) : Calm(i)
    PROVE  TasksSound'
<1>1. TypeInv /\ version \in [Items -> Versions] /\ task \in [Tasks -> Task]
  BY DEF Base, TypedSync, TypeInv, SourceOK, Local, TasksOK
<1>2. \A q \in Tasks : task'[q] = IF q = p THEN u ELSE task[q]
  BY <1>1 DEF Become
<1>3. ASSUME NEW q \in Tasks, q # p
      PROVE  Sound(cursor', docs', op', version', task[q])
  <2>1. task[q] \in Task /\ WellFormed(task[q])
    BY <1>1, TaskFacts
  <2>2. Sound(cursor, docs, op, version, task[q])
    BY DEF TasksSound
  <2>3. Busy(task[q]) => \A i \in Concerns(task[q]) : Calm(i)
    BY <1>3
  <2>4. QED
    BY <1>1, <2>1, <2>2, <2>3, SoundCalm
<1>4. ASSUME NEW q \in Tasks
      PROVE  Sound(cursor', docs', op', version', task'[q])
  <2>1. CASE q = p
    <3>1. task'[q] = u
      BY <1>2, <2>1
    <3>2. QED
      BY <3>1
  <2>2. CASE q # p
    <3>1. task'[q] = task[q]
      BY <1>2, <2>2
    <3>2. QED
      BY <1>3, <2>2, <3>1
  <2>3. QED
    BY <2>1, <2>2
<1>5. QED
  BY <1>4 DEF TasksSound

\* A call about other items is not disturbed by what happens to this one's.
LEMMA Undisturbed ==
    ASSUME Base, OneCallPerItem, NEW p \in Tasks, Busy(task[p]),
           \A i \in Items \ Concerns(task[p]) : Calm(i)
    PROVE  \A q \in Tasks \ {p} : Busy(task[q]) => \A i \in Concerns(task[q]) : Calm(i)
<1>1. ASSUME NEW q \in Tasks \ {p}, Busy(task[q]), NEW i \in Concerns(task[q])
      PROVE  Calm(i)
  <2>1. task[q] \in Task
    BY TaskFacts DEF Base, TypedSync
  <2>2. i \in Items
    BY <1>1, <2>1, ConcernsFacts
  <2>3. i \notin Concerns(task[p])
    BY <1>1 DEF OneCallPerItem
  <2>4. QED
    BY <2>2, <2>3
<1>2. QED
  BY <1>1

LEMMA RowsStep ==
    ASSUME Base, DocInv, RowInv, version' \in [Items -> Versions],
           \A i \in Items : cursor'[i] # NoRow =>
              \/ cursor'[i] = cursor[i] /\ DocCalm(i)
              \/ GoodRow(docs', version', i, cursor'[i])
    PROVE  RowInv'
<1>1. ASSUME NEW i \in Items, cursor'[i] # NoRow
      PROVE  GoodRow(docs', version', i, cursor'[i])
  <2>1. CASE cursor'[i] = cursor[i] /\ DocCalm(i)
    <3>1. /\ cursor[i] \in Row /\ GoodRow(docs, version, i, cursor[i])
          /\ version[i] \in Nat /\ version'[i] \in Nat
      BY <1>1, <2>1, DocFacts DEF RowInv, Has
    <3>2. QED
      BY <2>1, <3>1, GoodRowCalm
  <2>2. QED
    BY <1>1, <2>1
<1>2. QED
  BY <1>1 DEF RowInv, Has

Quiet == UNCHANGED <<docs, op, version, live>>

LEMMA QuietDocs ==
    ASSUME MirrorConditions, Base, DocInv, Quiet
    PROVE  /\ DocInv' /\ \A i \in Items : DocCalm(i)
           /\ version' \in [Items -> Versions]
<1>1. version \in [Items -> Versions] /\ Versions \subseteq Nat
  BY DocFacts
<1>2. GoneRemain /\ \A i \in Items : version'[i] \in Nat /\ version[i] <= version'[i]
  <2>1. version' = version /\ live' = live
    BY DEF Quiet
  <2>2. ASSUME NEW i \in Items
        PROVE  version[i] \in Nat /\ version[i] <= version[i]
    <3>1. version[i] \in Nat
      BY <1>1
    <3>2. QED
      BY <3>1
  <2>3. \A i \in Items : version'[i] \in Nat /\ version[i] <= version'[i]
    BY <2>1, <2>2, Zenon
  <2>4. GoneRemain
    BY <2>1 DEF GoneRemain
  <2>5. QED
    BY <2>3, <2>4
<1>3. QED
  BY <1>1, <1>2, StillDocs DEF Quiet

\* Only a call goes on.
LEMMA QuietTask ==
    ASSUME MirrorConditions, Mirroring, Quiet, UNCHANGED cursor,
           NEW p \in Tasks, NEW u, Become(p, u), Sound(cursor, docs, op, version, u)
    PROVE  Kept
<1>1. DocInv' /\ version' \in [Items -> Versions] /\ \A i \in Items : DocCalm(i)
  BY QuietDocs DEF Mirroring
<1>2. RowInv'
  BY <1>1, RowsStep DEF Mirroring
<1>3. \A i \in Items : Calm(i)
  BY <1>1 DEF Calm, RowCalm
<1>4. \A q \in Tasks \ {p} : Busy(task[q]) => \A i \in Concerns(task[q]) : Calm(i)
  BY <1>3, TaskFacts, ConcernsFacts DEF Mirroring, Base, TypedSync
<1>5. Sound(cursor', docs', op', version', u)
  BY DEF Quiet
<1>6. QED
  BY <1>1, <1>2, <1>4, <1>5, TasksStep DEF Kept, Mirroring

\* A call goes on and writes the row of an item it is about, or any call goes
\* on and a row is removed.
LEMMA RowTask ==
    ASSUME MirrorConditions, Mirroring, OneCallPerItem, Quiet,
           NEW p \in Tasks, NEW i \in Items, NEW row, cursor' = [cursor EXCEPT ![i] = row],
           \/ row = NoRow
           \/ Busy(task[p]) /\ i \in Concerns(task[p]) /\ GoodRow(docs, version, i, row),
           NEW u, Become(p, u), Sound(cursor', docs, op, version, u)
    PROVE  Kept
<1>1. DocInv' /\ version' \in [Items -> Versions] /\ \A j \in Items : DocCalm(j)
  BY QuietDocs DEF Mirroring
<1>2. \A j \in Items : cursor'[j] = IF j = i THEN row ELSE cursor[j]
  BY DocFacts DEF Mirroring
<1>3. RowInv'
  <2>1. \A j \in Items : \/ cursor'[j] \in {NoRow, cursor[j]} /\ DocCalm(j)
                         \/ GoodRow(docs, version, j, cursor'[j])
    BY <1>1, <1>2
  <2>2. \A j \in Items : \/ cursor'[j] \in {NoRow, cursor[j]} /\ DocCalm(j)
                         \/ GoodRow(docs', version', j, cursor'[j])
    BY <2>1 DEF Quiet
  <2>3. QED
    BY <1>1, <2>2, RowsStep DEF Mirroring
<1>4. \A j \in Items : j # i \/ row = NoRow => Calm(j)
  BY <1>1, <1>2 DEF Calm, RowCalm
<1>5. \A q \in Tasks \ {p} : Busy(task[q]) => \A j \in Concerns(task[q]) : Calm(j)
  <2>1. CASE row = NoRow
    BY <1>4, <2>1, TaskFacts, ConcernsFacts DEF Mirroring, Base, TypedSync
  <2>2. CASE Busy(task[p]) /\ i \in Concerns(task[p])
    BY <1>4, <2>2, Undisturbed DEF Mirroring
  <2>3. QED
    BY <2>1, <2>2
<1>6. Sound(cursor', docs', op', version', u)
  BY DEF Quiet
<1>7. QED
  BY <1>1, <1>3, <1>5, <1>6, TasksStep DEF Kept, Mirroring

-----------------------------------------------------------------------------
(* What a call becomes.                                                    *)

LEMMA OutcomeSound ==
    ASSUME NEW C, NEW D, NEW O, NEW V, NEW t
    PROVE  /\ \A a : Sound(C, D, O, V, Outcome(t, a, FALSE))
           /\ \A a : t.ref \in Primary /\ t.token \in Versions /\ NotYet(C, t)
                        => Sound(C, D, O, V, Outcome(t, a, TRUE))
<1>1. \A a, b : /\ Outcome(t, a, b).pc = "done" /\ Outcome(t, a, b).deferred = b
                /\ Outcome(t, a, b).ref = t.ref /\ Outcome(t, a, b).token = t.token
  BY DEF Outcome, Blank
<1>2. ASSUME NEW a
      PROVE  Sound(C, D, O, V, Outcome(t, a, FALSE))
  <2> DEFINE u == Outcome(t, a, FALSE)
  <2>1. u.pc = "done" /\ ~u.deferred
    BY <1>1
  <2> HIDE DEF u
  <2>2. Sound(C, D, O, V, u)
    BY <2>1 DEF Sound, Busy, PushPC
  <2>3. QED
    BY <2>2 DEF u
<1>3. ASSUME NEW a, t.ref \in Primary, t.token \in Versions, NotYet(C, t)
      PROVE  Sound(C, D, O, V, Outcome(t, a, TRUE))
  <2> DEFINE u == Outcome(t, a, TRUE)
  <2>1. u.pc = "done" /\ u.ref = t.ref /\ u.token = t.token
    BY <1>1
  <2> HIDE DEF u
  <2>2. Sound(C, D, O, V, u)
    BY <1>3, <2>1 DEF Sound, PushPC, NotYet
  <2>3. QED
    BY <2>2 DEF u
<1>4. QED
  BY <1>2, <1>3

\* The calls that do not push.
LEMMA IdleSound ==
    ASSUME NEW C, NEW D, NEW O, NEW V, NEW t, t.pc \in {"idle", "dlookup", "delete", "dpoll"}
    PROVE  Sound(C, D, O, V, t)
  BY DEF Sound, Busy, PushPC

LEMMA SameCarries ==
    ASSUME NEW C, NEW D, NEW O, NEW V, NEW t, NEW u,
           u.ref = t.ref, u.token = t.token, u.home = t.home, u.lib = t.lib,
           u.todo = t.todo, u.before = t.before
    PROVE  /\ Carries(C, D, O, V, t) => Carries(C, D, O, V, u)
           /\ NotYet(C, t) => NotYet(C, u)
           /\ Subject(u) = Subject(t) /\ IsPrimary(u) = IsPrimary(t)
<1>1. \A x : Fits(C, D, O, V, t, x) => Fits(C, D, O, V, u, x)
  BY DEF Fits
<1>2. Carries(C, D, O, V, t) => Carries(C, D, O, V, u)
  BY <1>1 DEF Carries
<1>3. QED
  BY <1>2 DEF NotYet, Subject, IsPrimary

\* A call that pushes sends its next request.
Pushable(C, D, O, V, t) ==
    /\ t.ref \in Primary /\ t.token \in Versions
    /\ Carries(C, D, O, V, t)
    /\ IsPrimary(t) => NotYet(C, t)

LEMMA AskSound ==
    ASSUME NEW C, NEW D, NEW O, NEW V, NEW t \in Task, Pushable(C, D, O, V, t),
           NEW pc \in PushPC \ {"lookup"}, NEW d \in DocIds \cup {NoDoc},
           pc = "fetch" => t.before = NoRow /\ IsPrimary(t),
           pc = "item" => Known(C, D, Subject(t)),
           pc = "create" => ActiveOf(D, Subject(t)) = {},
           pc \in {"revise", "poll"} => d # NoDoc /\ ActiveOf(D, Subject(t)) \subseteq {d}
    PROVE  Sound(C, D, O, V, Ask(t, pc, d))
<1> DEFINE u == Ask(t, pc, d)
<1>1. pc \in PC
  BY DEF PushPC, PC, Await
<1>2. /\ u.pc = pc /\ u.answer = "none" /\ u.ref = t.ref /\ u.home = t.home /\ u.lib = t.lib
      /\ u.todo = t.todo /\ u.before = t.before /\ u.doc = d /\ u.token = t.token
  <2>1. u.token = t.token
    BY DEF Ask, Task
  <2>2. QED
    BY <1>1, <2>1, AskType
<1> HIDE DEF u
<1>3. /\ Carries(C, D, O, V, u) /\ Subject(u) = Subject(t)
      /\ IsPrimary(u) => NotYet(C, u)
  BY <1>2, SameCarries DEF Pushable
<1>4. Placed(C, D, u)
  BY <1>2, <1>3 DEF Placed, IsPrimary
<1>5. Sound(C, D, O, V, u)
  BY <1>2, <1>3, <1>4 DEF Sound, Pushable, PushPC
<1>6. QED
  BY <1>5 DEF u

\* On to the next dependent, or the call is done.
LEMMA NextItemSound ==
    ASSUME OneLibrary, RoutesHome, NEW C, NEW D, NEW O, NEW V, NEW t \in Task, NEW a,
           t.todo # <<>>, t.ref \in Primary, t.token \in Versions, Carries(C, D, O, V, t),
           \A i \in Items \ Primary : Known(C, D, i)
    PROVE  Sound(C, D, O, V, NextItem(t, a))
<1> DEFINE rest == Tail(t.todo)
           main == IF IsPrimary(t) THEN a ELSE t.action
           n == NextItem(t, a)
<1>1. /\ t.todo \in Seq(SourceItem) /\ rest \in Seq(SourceItem)
      /\ Len(t.todo) \in Nat /\ Len(rest) = Len(t.todo) - 1
      /\ \A k \in 1 .. Len(rest) : rest[k] = t.todo[k + 1]
      /\ \A k \in 1 .. Len(rest) : k + 1 \in 2 .. Len(t.todo) /\ k + 1 \in 1 .. Len(t.todo)
      /\ \A k \in 2 .. Len(rest) : k \in 1 .. Len(rest)
  <2>1. t.todo \in Seq(SourceItem)
    BY DEF Task
  <2>2. /\ rest \in Seq(SourceItem) /\ Len(t.todo) \in Nat /\ Len(rest) = Len(t.todo) - 1
        /\ \A k \in 1 .. Len(rest) : rest[k] = t.todo[k + 1]
    BY <2>1, HeadTailProperties, LenProperties
  <2> HIDE DEF rest
  <2>3. QED
    BY <2>1, <2>2
<1>2. CASE rest = <<>>
  <2>1. n = Outcome(t, main, FALSE)
    BY <1>2 DEF NextItem
  <2>2. \A b : Sound(C, D, O, V, Outcome(t, b, FALSE))
    BY OutcomeSound
  <2>3. QED
    BY <2>1, <2>2
<1>3. CASE rest # <<>>
  <2> DEFINE l == DependentLibrary(t, Head(rest).item)
  <2>1. n = [Ask(t, "item", NoDoc) EXCEPT !.todo = rest, !.lib = l, !.action = main]
    BY <1>3 DEF NextItem
  <2>2. Head(rest) = rest[1] /\ Head(rest) \in SourceItem /\ 1 \in 1 .. Len(rest)
    BY <1>1, <1>3, HeadTailProperties, EmptySeq, LenProperties
  <2>3. Head(rest).item \in Items \ Primary
    BY <1>1, <2>2 DEF Carries, SourceItem
  <2>4. l = Home
    BY <2>3, HomeFacts DEF DependentLibrary, RoutesHome, Anywhere, Carries
  <2> HIDE DEF l, main, rest, n
  <2>5. /\ n.pc = "item" /\ n.ref = t.ref /\ n.token = t.token /\ n.home = t.home
        /\ n.lib = l /\ n.todo = rest /\ n.before = t.before /\ n.answer = "none"
    BY <2>1 DEF Ask, Task
  <2>6. Subject(n) = Head(rest).item /\ ~IsPrimary(n)
    BY <1>3, <2>3, <2>5 DEF Subject, IsPrimary
  <2>7. \A x : Fits(C, D, O, V, t, x) => Fits(C, D, O, V, n, x)
    BY <2>5 DEF Fits
  <2>8. Carries(C, D, O, V, n)
    <3>1. \A k \in 1 .. Len(rest) : Fits(C, D, O, V, n, rest[k]) /\ rest[k].item \notin Primary
      BY <1>1, <2>7 DEF Carries
    <3>2. ASSUME NEW k \in 1 .. Len(rest), NEW m \in 1 .. Len(rest), rest[k].item = rest[m].item
          PROVE  rest[k].payload = rest[m].payload
      <4>1. /\ rest[k] = t.todo[k + 1] /\ rest[m] = t.todo[m + 1]
            /\ k + 1 \in 1 .. Len(t.todo) /\ m + 1 \in 1 .. Len(t.todo)
        BY <1>1
      <4>2. QED
        BY <3>2, <4>1, Zenon DEF Carries
    <3>3. QED
      BY <1>1, <2>4, <2>5, <3>1, <3>2 DEF Carries
  <2>9. Placed(C, D, n)
    BY <2>3, <2>5, <2>6 DEF Placed
  <2>10. Sound(C, D, O, V, n)
    BY <2>5, <2>6, <2>8, <2>9 DEF Sound, PushPC
  <2>11. QED
    BY <2>10 DEF n
<1>4. QED
  BY <1>2, <1>3

-----------------------------------------------------------------------------
(* The steps of a push.                                                    *)

\* The row of an item that is not gone names its document.
LEMMA KnownNames ==
    ASSUME Mirroring, NEW i \in Items, ~Gone(i)
    PROVE  Known(cursor, docs, i)
<1>1. SUFFICES ASSUME cursor[i] # NoRow
               PROVE  ActiveOf(docs, i) \subseteq {cursor[i].doc}
  BY DEF Known
<1> DEFINE d == cursor[i].doc
<1>2. d \in DocIds /\ docs[d].key = i
  <2>1. cursor[i] \in Row /\ d # NoDoc
    BY <1>1, DocFacts DEF Mirroring, RowInv, Has, GoodRow
  <2>2. Mine(docs, i, d)
    BY <1>1 DEF Mirroring, Base, OwnInv, LocalOwned, CursorOwned, Has
  <2>3. QED
    BY <2>1, <2>2 DEF Row, Mine
<1>3. docs[d].state = "active"
  BY <1>2, DocFacts, NoDocAssumption DEF Mirroring, DocInv, DeletedGone
<1>4. QED
  BY <1>2, <1>3 DEF Mirroring, DocInv, OneActive, ActiveOf

LEMMA PushFacts ==
    ASSUME Mirroring, NEW p \in Tasks, task[p].pc \in PushPC
    PROVE  /\ task[p] \in Task /\ WellFormed(task[p]) /\ Busy(task[p])
           /\ Pushable(cursor, docs, op, version, task[p])
           /\ Placed(cursor, docs, task[p])
           /\ task[p].ref \in Primary /\ task[p].ref \in Items /\ task[p].token \in Versions
           /\ Subject(task[p]) \in Concerns(task[p]) /\ task[p].ref \in Concerns(task[p])
           /\ Subject(task[p]) \in Items /\ task[p].lib = Home /\ task[p].home = Home
           /\ task[p].pc # "lookup"
<1>1. task[p] \in Task /\ WellFormed(task[p]) /\ task[p].ref \in Items
  BY TaskFacts DEF Mirroring, Base, TypedSync
<1>2. Sound(cursor, docs, op, version, task[p]) /\ Busy(task[p])
  BY DEF Mirroring, TasksSound, Busy
<1>3. QED
  BY <1>1, <1>2, ConcernsFacts DEF Sound, Pushable, Carries

\* The item being pushed.
LEMMA HeadFacts ==
    ASSUME NEW C, NEW D, NEW O, NEW V, NEW t \in Task, t.todo # <<>>, Carries(C, D, O, V, t)
    PROVE  /\ Head(t.todo) \in SourceItem /\ Subject(t) = Head(t.todo).item
           /\ Fits(C, D, O, V, t, Head(t.todo))
           /\ \A k \in 1 .. Len(t.todo) :
                 t.todo[k].item = Subject(t) => t.todo[k].payload = Head(t.todo).payload
<1>1. /\ Head(t.todo) \in SourceItem /\ Subject(t) = Head(t.todo).item
      /\ Head(t.todo) = t.todo[1] /\ 1 \in 1 .. Len(t.todo)
  BY SubjectType, ConcernsFacts
<1>2. QED
  BY <1>1 DEF Carries

\* The row of the item being pushed changes, and claims no version that the
\* call does not push.
LEMMA CarriesRow ==
    ASSUME DistinctVersions, NEW C, NEW D, NEW O, NEW V, NEW t \in Task, t.todo # <<>>,
           Carries(C, D, O, V, t), NEW B,
           \A j \in Items : j # Subject(t) => B[j] = C[j],
           LET row == B[Subject(t)]
           IN  row # NoRow => /\ row.token \in Nat
                              /\ \/ row.token <= Head(t.todo).token
                                 \/ C[Subject(t)] # NoRow /\ row.token = C[Subject(t)].token
    PROVE  Carries(B, D, O, V, t)
<1> DEFINE i == Subject(t)
           c == Head(t.todo).payload
<1>1. /\ i \in Items /\ Head(t.todo).item = i /\ Fits(C, D, O, V, t, Head(t.todo))
      /\ Head(t.todo).token \in Nat /\ Versions \subseteq Nat
      /\ \A k \in 1 .. Len(t.todo) : t.todo[k] \in SourceItem
      /\ \A k \in 1 .. Len(t.todo) : t.todo[k].item = i => t.todo[k].payload = c
  <2>1. Head(t.todo) \in SourceItem /\ Versions \subseteq Nat /\ Tokens \subseteq Nat
    BY HeadFacts, VersionAssumption DEF Versions, Tokens, NoToken
  <2>2. QED
    BY <2>1, HeadFacts, ConcernsFacts, SubjectType DEF SourceItem
<1>2. PICK v \in Versions :
         /\ c = Bytes[i][v] /\ Head(t.todo).token <= v
         /\ C[i] # NoRow => C[i].token <= v
  BY <1>1 DEF Fits
<1>3. B[i] # NoRow => B[i].token <= v
  <2>1. v \in Nat
    BY <1>1
  <2>2. QED
    BY <1>1, <1>2, <2>1
<1> HIDE DEF i, c
<1>4. ASSUME NEW k \in 1 .. Len(t.todo)
      PROVE  Fits(B, D, O, V, t, t.todo[k])
  <2> DEFINE x == t.todo[k]
  <2>1. Fits(C, D, O, V, t, x) /\ x.item \in Items
    BY <1>1 DEF Carries, SourceItem
  <2>2. x.item = i => x.payload = c
    BY <1>1
  <2> HIDE DEF x
  <2>3. PICK w \in Versions :
           /\ x.payload = Bytes[x.item][w]
           /\ x.token <= w /\ w <= V[x.item]
           /\ AtMost(D, O, x.item, w)
           /\ C[x.item] # NoRow => C[x.item].token <= w
           /\ x.item = t.ref /\ t.before # NoRow => t.before.token <= w
    BY <2>1 DEF Fits
  <2>4. B[x.item] # NoRow => B[x.item].token <= w
    <3>1. CASE x.item # i
      <4>1. B[x.item] = C[x.item]
        BY <2>1, <3>1 DEF i
      <4>2. QED
        BY <2>3, <4>1
    <3>2. CASE x.item = i
      <4>1. w = v
        BY <1>1, <1>2, <2>2, <2>3, <3>2 DEF DistinctVersions
      <4>2. QED
        BY <1>3, <3>2, <4>1
    <3>3. QED
      BY <3>1, <3>2
  <2>5. Fits(B, D, O, V, t, x)
    BY <2>3, <2>4, Zenon DEF Fits
  <2>6. QED
    BY <2>5 DEF x
<1>5. QED
  BY <1>4 DEF Carries

\* The item is recorded as handled, with the document it has, at a version the
\* document carries.
LEMMA HandledStep ==
    ASSUME MirrorConditions, Mirroring, OneCallPerItem, Quiet, NEW p \in Tasks,
           task[p].pc \in PushPC, task[p].todo # <<>>, NEW d \in DocIds, NEW a,
           Handled(p, d, a), ActiveOf(docs, Subject(task[p])) \subseteq {d},
           AtLeastOf(docs, Subject(task[p]), Head(task[p].todo).token)
    PROVE  Kept
<1> DEFINE t == task[p]
           i == Subject(t)
           tok == Head(t.todo).token
           row == [token |-> tok, doc |-> d, lib |-> Home]
<1>1. /\ t \in Task /\ i \in Items /\ i \in Concerns(t) /\ Busy(t) /\ t.todo # <<>>
      /\ t.lib = Home /\ t.ref \in Primary /\ t.token \in Versions
      /\ Carries(cursor, docs, op, version, t)
  BY PushFacts DEF Pushable
<1>2. d # NoDoc
  BY NoDocAssumption
<1>3. cursor' = [cursor EXCEPT ![i] = row] /\ Become(p, NextItem(t, a))
  BY <1>1, <1>2 DEF Handled, Upsert, KeptDoc
<1>4. /\ cursor \in [Items -> Row \cup {NoRow}] /\ \A j \in Items : version[j] \in Nat
      /\ Versions \subseteq Nat /\ Tokens \subseteq Nat
  BY DocFacts DEF Mirroring
<1>5. tok \in Nat /\ tok <= version[i]
  <2>1. Head(t.todo) \in SourceItem /\ i = Head(t.todo).item /\ Fits(cursor, docs, op, version, t, Head(t.todo))
    BY <1>1, HeadFacts
  <2>2. PICK v \in Versions : tok <= v /\ v <= version[i]
    BY <2>1 DEF Fits
  <2>3. tok \in Nat /\ v \in Nat /\ version[i] \in Nat
    BY <1>1, <1>4, <2>1 DEF SourceItem
  <2>4. QED
    BY <2>2, <2>3
<1>6. row.token = tok /\ row.doc = d /\ row.lib = Home
  OBVIOUS
<1>7. \A j \in Items : cursor'[j] = IF j = i THEN row ELSE cursor[j]
  BY <1>3, <1>4
<1>8. ActiveOf(docs, i) \subseteq {d} /\ AtLeastOf(docs, i, tok)
  OBVIOUS
<1> HIDE DEF row, tok, i
<1>9. GoodRow(docs, version, i, row)
  BY <1>2, <1>5, <1>6, <1>8 DEF GoodRow
<1>10. \A j \in Items \ Primary : Known(cursor', docs, j)
  <2>1. ASSUME NEW j \in Items \ Primary
        PROVE  Known(cursor', docs, j)
    <3>1. CASE j = i
      BY <1>6, <1>7, <1>8, <3>1 DEF Known
    <3>2. CASE j # i
      <4>1. Known(cursor, docs, j)
        BY KnownNames DEF Gone
      <4>2. QED
        BY <1>7, <3>2, <4>1 DEF Known
    <3>3. QED
      BY <3>1, <3>2
  <2>2. QED
    BY <2>1
<1>11. Carries(cursor', docs, op, version, t)
  <2>1. \A j \in Items : j # i => cursor'[j] = cursor[j]
    BY <1>7
  <2>2. cursor'[i].token = tok
    BY <1>1, <1>6, <1>7
  <2>3. tok <= tok
    BY <1>5
  <2>4. QED
    BY <1>1, <1>5, <2>1, <2>2, <2>3, CarriesRow DEF MirrorConditions, i, tok
<1>12. Sound(cursor', docs, op, version, NextItem(t, a))
  BY <1>1, <1>10, <1>11, NextItemSound DEF MirrorConditions, Mirroring, Base, GoneInv
<1>13. QED
  BY <1>1, <1>3, <1>9, <1>12, RowTask

\* The call defers: its reference is not recorded as handled.
LEMMA DeferStep ==
    ASSUME MirrorConditions, Mirroring, OneCallPerItem, Quiet, NEW p \in Tasks,
           task[p].pc \in PushPC, Defer(p)
    PROVE  Kept
<1> DEFINE t == task[p]
<1>1. /\ t \in Task /\ t.ref \in Items /\ t.ref \in Concerns(t) /\ Busy(t)
      /\ t.ref \in Primary /\ t.token \in Versions
      /\ Carries(cursor, docs, op, version, t)
      /\ IsPrimary(t) => NotYet(cursor, t)
  BY PushFacts DEF Pushable
<1>2. CASE IsPrimary(t)
  <2>1. Become(p, Outcome(t, "skipped_changed", TRUE)) /\ UNCHANGED cursor
    BY <1>2 DEF Defer
  <2>2. Sound(cursor, docs, op, version, Outcome(t, "skipped_changed", TRUE))
    BY <1>1, <1>2, OutcomeSound
  <2>3. QED
    BY <2>1, <2>2, QuietTask
<1>3. CASE ~IsPrimary(t)
  <2>1. Become(p, Outcome(t, t.action, TRUE)) /\ cursor' = [cursor EXCEPT ![t.ref] = t.before]
    BY <1>3 DEF Defer, Restore
  <2>2. t.before # NoRow => t.before.token # t.token /\ GoodRow(docs, version, t.ref, t.before)
    BY <1>1 DEF Carries
  <2>3. cursor'[t.ref] = t.before
    BY <1>1, <2>1, DocFacts DEF Mirroring
  <2>4. NotYet(cursor', t)
    BY <2>2, <2>3 DEF NotYet
  <2>5. Sound(cursor', docs, op, version, Outcome(t, t.action, TRUE))
    BY <1>1, <2>4, OutcomeSound
  <2>6. QED
    BY <1>1, <2>1, <2>2, <2>5, RowTask
<1>4. QED
  BY <1>2, <1>3

LEMMA EndKept ==
    ASSUME MirrorConditions, Mirroring, Quiet, UNCHANGED cursor, NEW p \in Tasks,
           NEW t, NEW a, Become(p, Outcome(t, a, FALSE))
    PROVE  Kept
<1>1. Sound(cursor, docs, op, version, Outcome(t, a, FALSE))
  BY OutcomeSound
<1>2. QED
  BY <1>1, QuietTask

LEMMA AskKept ==
    ASSUME MirrorConditions, Mirroring, Quiet, UNCHANGED cursor, NEW p \in Tasks,
           task[p].pc \in PushPC, NEW pc \in PushPC \ {"lookup", "fetch"},
           NEW d \in DocIds \cup {NoDoc}, Become(p, Ask(task[p], pc, d)),
           pc = "item" => Known(cursor, docs, Subject(task[p])),
           pc = "create" => ActiveOf(docs, Subject(task[p])) = {},
           pc \in {"revise", "poll"} => d # NoDoc /\ ActiveOf(docs, Subject(task[p])) \subseteq {d}
    PROVE  Kept
<1>1. task[p] \in Task /\ Pushable(cursor, docs, op, version, task[p])
  BY PushFacts
<1>2. Sound(cursor, docs, op, version, Ask(task[p], pc, d))
  BY <1>1, AskSound
<1>3. QED
  BY <1>2, QuietTask

LEMMA NextKept ==
    ASSUME MirrorConditions, Mirroring, Quiet, UNCHANGED cursor, NEW p \in Tasks,
           task[p].pc \in PushPC, task[p].todo # <<>>, NEW a, Become(p, NextItem(task[p], a))
    PROVE  Kept
<1>1. /\ task[p] \in Task /\ task[p].ref \in Primary /\ task[p].token \in Versions
      /\ Carries(cursor, docs, op, version, task[p])
  BY PushFacts DEF Pushable
<1>2. \A i \in Items \ Primary : Known(cursor, docs, i)
  BY KnownNames DEF Gone
<1>3. Sound(cursor, docs, op, version, NextItem(task[p], a))
  BY <1>1, <1>2, NextItemSound DEF MirrorConditions, Mirroring, Base, GoneInv
<1>4. QED
  BY <1>3, QuietTask

LEMMA ResumeFetchKept ==
    ASSUME MirrorConditions, Mirroring, NEW p \in Tasks, ResumeFetch(p)
    PROVE  Kept
<1> DEFINE t == task[p]
<1>1. t.pc = "fetch" /\ t.pc \in PushPC /\ Quiet /\ UNCHANGED cursor
  BY DEF ResumeFetch, Resumes, PushPC, Quiet, srcVars, ragVars
<1>2. CASE Become(p, Outcome(t, "fetch_returned_none", FALSE))
  BY <1>1, <1>2, EndKept
<1>3. CASE /\ Resumes(p, "fetch", "fetched")
           /\ Become(p, [Ask(t, "item", NoDoc) EXCEPT !.before = cursor[t.ref]])
  <2> DEFINE row == cursor[t.ref]
             u == [Ask(t, "item", NoDoc) EXCEPT !.before = row]
  <2>1. /\ t \in Task /\ t.todo # <<>> /\ t.answer = "fetched" /\ t.ref \in Items
        /\ Pushable(cursor, docs, op, version, t) /\ Placed(cursor, docs, t)
    BY <1>1, <1>3, PushFacts DEF Resumes, WellFormed
  <2>2. Subject(t) = t.ref /\ Known(cursor, docs, t.ref) /\ t.before = NoRow
    BY <1>1, <2>1 DEF Placed
  <2>3. NotYet(cursor, t)
    BY <2>1, <2>2 DEF Pushable, IsPrimary
  <2>4. row # NoRow => row.token # t.token /\ GoodRow(docs, version, t.ref, row)
    BY <2>1, <2>3 DEF NotYet, Mirroring, RowInv, Has
  <2>5. /\ u.pc = "item" /\ u.answer = "none" /\ u.ref = t.ref /\ u.token = t.token
        /\ u.home = t.home /\ u.lib = t.lib /\ u.todo = t.todo /\ u.before = row
    BY <2>1 DEF Ask, Task
  <2>6. Become(p, u)
    BY <1>3
  <2> HIDE DEF u
  <2>7. \A x : Fits(cursor, docs, op, version, t, x) => Fits(cursor, docs, op, version, u, x)
    BY <2>5 DEF Fits
  <2>8. Carries(cursor, docs, op, version, u)
    BY <2>1, <2>4, <2>5, <2>7 DEF Pushable, Carries
  <2>9. Subject(u) = t.ref
    BY <2>2, <2>5 DEF Subject
  <2>10. Placed(cursor, docs, u) /\ NotYet(cursor, u)
    BY <2>2, <2>3, <2>5, <2>9 DEF Placed, NotYet
  <2>11. Sound(cursor, docs, op, version, u)
    BY <2>1, <2>5, <2>8, <2>10 DEF Sound, Pushable
  <2>12. QED
    BY <1>1, <2>6, <2>11, QuietTask
<1>4. QED
  BY <1>2, <1>3 DEF ResumeFetch

LEMMA PushItemKept ==
    ASSUME MirrorConditions, Mirroring, NEW p \in Tasks, PushItem(p)
    PROVE  Kept
<1> DEFINE t == task[p]
           i == Subject(t)
<1>1. t.pc = "item" /\ t.pc \in PushPC /\ Quiet
  BY DEF PushItem, Resumes, PushPC, Quiet, srcVars, ragVars
<1>2. /\ t \in Task /\ t.todo # <<>> /\ i \in Items
      /\ Known(cursor, docs, i) /\ Policy[i].on_changed = "replace"
  BY <1>1, PushFacts DEF WellFormed, Placed, MirrorConditions
<1>3. CASE Become(p, NextItem(t, "noop_unchanged")) /\ UNCHANGED <<cursor, pushed>>
  BY <1>1, <1>2, <1>3, NextKept
<1>4. CASE Knows(i, t.lib) /\ PushChanged(p, cursor[i].doc)
  <2>1. Become(p, Ask(t, "revise", cursor[i].doc)) /\ UNCHANGED cursor
    BY <1>2, <1>4 DEF PushChanged
  <2>2. /\ cursor[i].doc \in DocIds \cup {NoDoc} /\ cursor[i].doc # NoDoc
        /\ ActiveOf(docs, i) \subseteq {cursor[i].doc}
    BY <1>2, <1>4, DocFacts DEF Knows, Has, Known, Mirroring, Row
  <2>3. QED
    BY <1>1, <2>1, <2>2, AskKept DEF PushPC
<1>5. CASE Become(p, Ask(t, "find", NoDoc)) /\ UNCHANGED <<cursor, pushed>>
  BY <1>1, <1>5, AskKept DEF PushPC
<1>6. QED
  BY <1>3, <1>4, <1>5 DEF PushItem

\* _create is reached when there is no document: on_new may say no.
LEMMA StartCreateSound ==
    ASSUME OneLibrary, RoutesHome, NEW C, NEW D, NEW O, NEW V, NEW t \in Task, t.todo # <<>>,
           Pushable(C, D, O, V, t), ActiveOf(D, Subject(t)) = {},
           \A j \in Items \ Primary : Known(C, D, j)
    PROVE  Sound(C, D, O, V, StartCreate(t))
<1>1. Sound(C, D, O, V, NextItem(t, "skipped_new"))
  BY NextItemSound DEF Pushable
<1>2. Sound(C, D, O, V, Ask(t, "create", NoDoc))
  BY AskSound DEF PushPC
<1>3. QED
  BY <1>1, <1>2 DEF StartCreate

LEMMA ResumeFindKept ==
    ASSUME MirrorConditions, Mirroring, OneCallPerItem, NEW p \in Tasks, ResumeFind(p)
    PROVE  Kept
<1> DEFINE t == task[p]
           i == Subject(t)
<1>1. t.pc = "find" /\ t.pc \in PushPC /\ Quiet
  BY DEF ResumeFind, Resumes, PushPC, Quiet, srcVars, ragVars
<1>2. /\ t \in Task /\ t.todo # <<>> /\ i \in Items /\ i \in Concerns(t) /\ Busy(t)
      /\ Policy[i].on_changed = "replace" /\ Placed(cursor, docs, t)
      /\ Pushable(cursor, docs, op, version, t) /\ t.lib = Home
  BY <1>1, PushFacts DEF WellFormed, MirrorConditions
<1>3. \A j \in Items \ Primary : Known(cursor, docs, j)
  BY KnownNames DEF Gone
<1>4. CASE /\ Resumes(p, "find", "absent") /\ Become(p, StartCreate(t))
           /\ UNCHANGED <<cursor, pushed>>
  <2>1. ActiveOf(docs, i) = {}
    BY <1>1, <1>2, <1>4 DEF Resumes, Placed
  <2>2. Sound(cursor, docs, op, version, StartCreate(t))
    BY <1>2, <1>3, <2>1, StartCreateSound DEF MirrorConditions, Mirroring, Base, GoneInv
  <2>3. QED
    BY <1>1, <1>4, <2>2, QuietTask
<1>5. CASE /\ Resumes(p, "find", "found") /\ Backfill(i, t.got, t.lib)
           /\ Become(p, Ask(t, "revise", t.got))
  <2>1. t.got # NoDoc /\ t.got \in DocIds \cup {NoDoc} /\ ActiveOf(docs, i) \subseteq {t.got}
    BY <1>1, <1>2, <1>5 DEF Resumes, Placed, Task
  <2>2. CASE ~Has(i)
    <3>1. UNCHANGED cursor
      BY <1>5, <2>2 DEF Backfill
    <3>2. "revise" \in PushPC \ {"lookup", "fetch"}
      BY DEF PushPC
    <3>3. QED
      BY <1>1, <1>2, <1>5, <2>1, <3>1, <3>2, AskKept
  <2>3. CASE Has(i)
    <3> DEFINE row == [cursor[i] EXCEPT !.doc = t.got, !.lib = Home]
    <3>1. cursor[i] \in Row /\ GoodRow(docs, version, i, cursor[i]) /\ cursor[i] # NoRow
      BY <1>2, <2>3, DocFacts DEF Has, Mirroring, RowInv
    <3>2. row.token = cursor[i].token /\ row.doc = t.got /\ row.lib = Home
      BY <3>1 DEF Row
    <3>3. cursor' = [cursor EXCEPT ![i] = row]
      BY <1>2, <1>5, <2>3, DocFacts DEF Backfill, Mirroring
    <3> HIDE DEF row
    <3>4. \A j \in Items : cursor'[j] = IF j = i THEN row ELSE cursor[j]
      BY <3>3, DocFacts DEF Mirroring
    <3>5. GoodRow(docs, version, i, row)
      BY <2>1, <3>1, <3>2 DEF GoodRow
    <3>6. Pushable(cursor', docs, op, version, t)
      <4>1. Carries(cursor', docs, op, version, t)
        <5>1. row.token \in Nat
          BY <3>1, <3>2, DocFacts DEF Row, Mirroring
        <5>2. Carries(cursor, docs, op, version, t) /\ DistinctVersions
          BY <1>2 DEF Pushable, MirrorConditions
        <5>3. /\ \A j \in Items : j # i => cursor'[j] = cursor[j]
              /\ cursor'[i].token = cursor[i].token /\ cursor'[i].token \in Nat
          BY <1>2, <3>2, <3>4, <5>1
        <5> HIDE DEF t
        <5>4. QED
          BY <1>2, <3>1, <5>2, <5>3, CarriesRow
      <4>2. NotYet(cursor, t) => NotYet(cursor', t)
        BY <1>2, <3>1, <3>2, <3>4 DEF NotYet, Pushable, Task
      <4>3. QED
        BY <1>2, <4>1, <4>2 DEF Pushable
    <3>7. Sound(cursor', docs, op, version, Ask(t, "revise", t.got))
      BY <1>2, <2>1, <3>6, AskSound DEF PushPC
    <3>8. QED
      BY <1>1, <1>2, <1>5, <3>3, <3>5, <3>7, RowTask
  <2>4. QED
    BY <2>2, <2>3
<1>6. QED
  BY <1>2, <1>4, <1>5 DEF ResumeFind

LEMMA ResumeCreateKept ==
    ASSUME MirrorConditions, Mirroring, OneCallPerItem, NEW p \in Tasks, ResumeCreate(p)
    PROVE  Kept
<1> DEFINE t == task[p]
<1>1. t.pc = "create" /\ t.pc \in PushPC /\ Quiet /\ t.answer \in {"created", "duplicate"}
  BY DEF ResumeCreate, Resumes, PushPC, Quiet, srcVars, ragVars
<1>2. t \in Task /\ t.todo # <<>> /\ Placed(cursor, docs, t)
  BY <1>1, PushFacts DEF WellFormed
<1>3. /\ t.answer = "created" /\ t.got # NoDoc
      /\ ActiveOf(docs, Subject(t)) \subseteq {t.got}
      /\ AtLeastOf(docs, Subject(t), Head(t.todo).token)
  BY <1>1, <1>2 DEF Placed
<1>4. t.got \in DocIds
  BY <1>2, <1>3 DEF Task
<1>5. Handled(p, t.got, "created")
  BY <1>3 DEF ResumeCreate, Resumes
<1>6. QED
  BY <1>1, <1>2, <1>3, <1>4, <1>5, HandledStep

LEMMA ResumeReviseKept ==
    ASSUME MirrorConditions, Mirroring, OneCallPerItem, NEW p \in Tasks, ResumeRevise(p)
    PROVE  Kept
<1> DEFINE t == task[p]
           i == Subject(t)
<1>1. t.pc = "revise" /\ t.pc \in PushPC /\ Quiet
  BY DEF ResumeRevise, Resumes, PushPC, Quiet, srcVars, ragVars
<1>2. /\ t \in Task /\ t.todo # <<>> /\ i \in Items /\ t.ref \in Items
      /\ Placed(cursor, docs, t) /\ Pushable(cursor, docs, op, version, t)
  BY <1>1, PushFacts DEF WellFormed
<1>3. CASE Resumes(p, "revise", "notfound") /\ Delete(i) /\ Become(p, StartCreate(t))
  <2>1. ActiveOf(docs, i) = {}
    BY <1>1, <1>2, <1>3 DEF Resumes, Placed
  <2>2. cursor' = [cursor EXCEPT ![i] = NoRow]
    BY <1>3 DEF Delete
  <2>3. \A j \in Items : cursor'[j] = IF j = i THEN NoRow ELSE cursor[j]
    BY <2>2, DocFacts DEF Mirroring
  <2>4. \A j \in Items \ Primary : Known(cursor', docs, j)
    <3>1. \A j \in Items \ Primary : Known(cursor, docs, j)
      BY KnownNames DEF Gone
    <3>2. QED
      BY <2>3, <3>1 DEF Known
  <2>5. Carries(cursor', docs, op, version, t)
    <3>1. Carries(cursor, docs, op, version, t) /\ DistinctVersions
      BY <1>2 DEF Pushable, MirrorConditions
    <3>2. cursor'[i] = NoRow /\ \A j \in Items : j # i => cursor'[j] = cursor[j]
      BY <1>2, <2>3
    <3> HIDE DEF t
    <3>3. QED
      BY <1>2, <3>1, <3>2, CarriesRow
  <2>6. NotYet(cursor, t) => NotYet(cursor', t)
    BY <1>2, <2>3 DEF NotYet
  <2>7. Pushable(cursor', docs, op, version, t)
    BY <1>2, <2>5, <2>6 DEF Pushable
  <2>8. Sound(cursor', docs, op, version, StartCreate(t))
    BY <1>2, <2>1, <2>4, <2>7, StartCreateSound DEF MirrorConditions, Mirroring, Base, GoneInv
  <2>9. QED
    BY <1>1, <1>2, <1>3, <2>2, <2>8, RowTask
<1>4. CASE Defer(p)
  BY <1>1, <1>4, DeferStep
<1>5. CASE Become(p, Ask(t, "poll", t.doc)) /\ UNCHANGED <<cursor, pushed>>
  <2>1. t.doc \in DocIds \cup {NoDoc} /\ t.doc # NoDoc /\ ActiveOf(docs, i) \subseteq {t.doc}
    BY <1>1, <1>2 DEF Placed, Task
  <2>2. QED
    BY <1>1, <1>5, <2>1, AskKept DEF PushPC
<1>6. QED
  BY <1>3, <1>4, <1>5 DEF ResumeRevise

\* An operation that is ready brought its bytes, and later ones may have
\* followed.
LEMMA PollKept ==
    ASSUME MirrorConditions, Mirroring, OneCallPerItem, NEW p \in Tasks,
           Poll(p) \/ PollTimeout(p)
    PROVE  Kept
<1> DEFINE t == task[p]
           i == Subject(t)
           k == RevisionKey(t)
<1>1. t.pc = "poll" /\ t.pc \in PushPC /\ Quiet
  BY DEF Poll, PollTimeout, Resumes, PushPC, Quiet, srcVars, ragVars
<1>2. /\ t \in Task /\ t.todo # <<>> /\ i \in Items
      /\ Placed(cursor, docs, t) /\ Carries(cursor, docs, op, version, t)
  BY <1>1, PushFacts DEF WellFormed, Pushable
<1>3. t.doc \in DocIds /\ ActiveOf(docs, i) \subseteq {t.doc}
  BY <1>1, <1>2 DEF Placed, Task
<1>4. CASE op[t.doc][k] = "ready" /\ Handled(p, t.doc, "replaced")
  <2> DEFINE x == Head(t.todo)
  <2>1. x \in SourceItem /\ x.item = i /\ Fits(cursor, docs, op, version, t, x)
    BY <1>2, HeadFacts
  <2>2. PICK v \in Versions : x.payload = Bytes[i][v] /\ x.token <= v
    BY <2>1 DEF Fits
  <2>3. k = <<i, x.payload>> /\ k \in RevisionKeys /\ k[2] = Bytes[i][v] /\ x.token \in Tokens
    BY <1>2, <2>1, <2>2 DEF RevisionKey, RevisionKeys, SourceItem
  <2> HIDE DEF x, k
  <2>4. ASSUME NEW e \in ActiveOf(docs, i)
        PROVE  From(i, docs[e].content, x.token)
    <3>1. e = t.doc /\ docs[e].state = "active" /\ docs[e].key = i
      BY <1>3 DEF ActiveOf
    <3>2. Older(i, k[2], docs[e].content)
      BY <1>3, <1>4, <2>3, <3>1 DEF Mirroring, DocInv, Forward
    <3>3. QED
      BY <1>2, <2>2, <2>3, <3>2, ByteOrder DEF MirrorConditions
  <2>5. AtLeastOf(docs, i, x.token)
    BY <2>4 DEF AtLeastOf
  <2>6. QED
    BY <1>1, <1>2, <1>3, <1>4, <2>5, HandledStep DEF x
<1>5. CASE Raise(p)
  BY <1>1, <1>5, EndKept DEF Raise
<1>6. CASE Defer(p)
  BY <1>1, <1>6, DeferStep
<1>7. QED
  BY <1>4, <1>5, <1>6 DEF Poll, PollTimeout

\* Calls that delete: a row may go.
LEMMA DeleteKept ==
    ASSUME MirrorConditions, Mirroring, OneCallPerItem, NEW p \in Tasks,
           ResumeDeleteLookup(p) \/ ResumeDelete(p) \/ DeletePoll(p)
    PROVE  Kept
<1> DEFINE t == task[p]
<1>1. Quiet /\ t.ref \in Items /\ t \in Task
  BY TaskFacts DEF ResumeDeleteLookup, ResumeDelete, DeletePoll, Resumes, Quiet, srcVars, ragVars,
     Mirroring, Base, TypedSync
<1>2. \A C, pc, d : pc \in {"delete", "dpoll"} => Sound(C, docs, op, version, Ask(t, pc, d))
  <2>1. \A pc, d : Ask(t, pc, d).pc = pc
    BY <1>1 DEF Ask, Task
  <2>2. QED
    BY <2>1, IdleSound
<1>3. ASSUME NEW a, Become(p, Outcome(t, a, FALSE)), UNCHANGED cursor
      PROVE  Kept
  BY <1>1, <1>3, EndKept
<1>4. ASSUME NEW pc \in {"delete", "dpoll"}, NEW d, Become(p, Ask(t, pc, d)), UNCHANGED cursor
      PROVE  Kept
  BY <1>1, <1>2, <1>4, QuietTask
<1>5. CASE Reaped(p)
  <2>1. CASE cursor' = [cursor EXCEPT ![t.ref] = NoRow]
    <3>1. Sound(cursor', docs, op, version, Outcome(t, "deleted", FALSE))
      BY OutcomeSound
    <3>2. Become(p, Outcome(t, "deleted", FALSE))
      BY <1>5 DEF Reaped
    <3>3. QED
      BY <1>1, <2>1, <3>1, <3>2, RowTask
  <2>2. QED
    BY <1>3, <1>5, <2>1 DEF Reaped, Delete
<1>6. QED
  BY <1>3, <1>4, <1>5 DEF ResumeDeleteLookup, ResumeDelete, DeletePoll, StartReap, Raise

LEMMA RunKept ==
    ASSUME MirrorConditions, Mirroring, OneCallPerItem, NEW p \in Tasks, Run(p)
    PROVE  Kept
<1>1. ~ResumeLookup(p)
  BY PushFacts DEF ResumeLookup, Resumes, PushPC
<1>2. QED
  BY <1>1, ResumeFetchKept, PushItemKept, ResumeFindKept, ResumeCreateKept, ResumeReviseKept,
     PollKept, DeleteKept DEF Run

-----------------------------------------------------------------------------
(* What the service and the source answer.                                 *)

LEMMA ReplyFields ==
    ASSUME NEW t \in Task, NEW a, NEW d
    PROVE  LET u == [t EXCEPT !.answer = a, !.got = d]
           IN  /\ u.pc = t.pc /\ u.ref = t.ref /\ u.token = t.token /\ u.home = t.home
               /\ u.lib = t.lib /\ u.todo = t.todo /\ u.before = t.before /\ u.doc = t.doc
               /\ u.answer = a /\ u.got = d
  BY DEF Task

\* The call gets an answer that is true.
LEMMA ReplySound ==
    ASSUME NEW C, NEW D, NEW O, NEW V, NEW t \in Task, NEW a, NEW d,
           Pushable(C, D, O, V, t), t.pc \in PushPC \ {"lookup"},
           t.pc = "fetch" => a # "fetched" /\ t.before = NoRow /\ IsPrimary(t),
           t.pc = "item" => Known(C, D, Subject(t)),
           t.pc = "find" => \/ a = "absent" /\ ActiveOf(D, Subject(t)) = {}
                            \/ a = "found" /\ d # NoDoc /\ ActiveOf(D, Subject(t)) \subseteq {d},
           t.pc = "create" => /\ a = "created" /\ d # NoDoc
                              /\ ActiveOf(D, Subject(t)) \subseteq {d}
                              /\ AtLeastOf(D, Subject(t), Head(t.todo).token),
           t.pc \in {"revise", "poll"} => t.doc # NoDoc /\ ActiveOf(D, Subject(t)) \subseteq {t.doc},
           t.pc = "revise" /\ a = "notfound" => ActiveOf(D, Subject(t)) = {}
    PROVE  Sound(C, D, O, V, [t EXCEPT !.answer = a, !.got = d])
<1> DEFINE u == [t EXCEPT !.answer = a, !.got = d]
<1>1. /\ u.pc = t.pc /\ u.ref = t.ref /\ u.token = t.token /\ u.home = t.home
      /\ u.lib = t.lib /\ u.todo = t.todo /\ u.before = t.before /\ u.doc = t.doc
      /\ u.answer = a /\ u.got = d
  BY ReplyFields
<1> HIDE DEF u
<1>2. /\ Carries(C, D, O, V, u) /\ Subject(u) = Subject(t)
      /\ IsPrimary(u) => NotYet(C, u)
  BY <1>1, SameCarries DEF Pushable
<1>3. Placed(C, D, u)
  BY <1>1, <1>2 DEF Placed, IsPrimary
<1>4. Sound(C, D, O, V, u)
  BY <1>1, <1>2, <1>3 DEF Sound, Pushable, PushPC
<1>5. QED
  BY <1>4 DEF u

\* A reply while documents stay as they are.
LEMMA ReplyKept ==
    ASSUME MirrorConditions, Mirroring, Quiet, UNCHANGED cursor, NEW p \in Tasks, NEW a, NEW d,
           Reply(p, a, d), Sound(cursor, docs, op, version, [task[p] EXCEPT !.answer = a, !.got = d])
    PROVE  Kept
<1>1. Become(p, [task[p] EXCEPT !.answer = a, !.got = d])
  BY DEF Reply, Become
<1>2. QED
  BY <1>1, QuietTask

LEMMA ServeFindKept ==
    ASSUME MirrorConditions, Mirroring, NEW p \in Tasks, ServeFind(p)
    PROVE  Kept
<1> DEFINE t == task[p]
           i == Subject(t)
<1>1. Quiet /\ UNCHANGED cursor /\ t.pc \in {"lookup", "find", "dlookup"} /\ t \in Task
  BY TaskFacts DEF ServeFind, Waits, Quiet, srcVars, ragVars, Mirroring, Base, TypedSync
<1>2. \/ \E d \in Matches(t.lib, i) : Reply(p, "found", d)
      \/ Matches(t.lib, i) = {} /\ Reply(p, "absent", NoDoc)
  BY DEF ServeFind
<1>3. CASE t.pc = "dlookup"
  <2>1. ASSUME NEW a, NEW d
        PROVE  Sound(cursor, docs, op, version, [t EXCEPT !.answer = a, !.got = d])
    <3> DEFINE u == [t EXCEPT !.answer = a, !.got = d]
    <3>1. u.pc = "dlookup"
      BY <1>1, <1>3, ReplyFields
    <3> HIDE DEF u
    <3>2. Sound(cursor, docs, op, version, u)
      BY <3>1, IdleSound
    <3>3. QED
      BY <3>2 DEF u
  <2>2. QED
    BY <1>1, <1>2, <2>1, ReplyKept
<1>4. CASE t.pc = "find"
  <2>1. t.pc \in PushPC \ {"lookup"}
    BY <1>4 DEF PushPC
  <2>2. Pushable(cursor, docs, op, version, t) /\ i \in Items /\ t.lib = Home
    BY <2>1, PushFacts
  <2>3. ActiveOf(docs, i) = Matches(Home, i)
    BY <2>2, DocFacts DEF ActiveOf, Matches, Active, Mirroring
  <2>4. CASE Matches(Home, i) = {} /\ Reply(p, "absent", NoDoc)
    <3>1. Sound(cursor, docs, op, version, [t EXCEPT !.answer = "absent", !.got = NoDoc])
      BY <1>1, <1>4, <2>1, <2>2, <2>3, <2>4, ReplySound
    <3>2. QED
      BY <1>1, <2>4, <3>1, ReplyKept
  <2>5. ASSUME NEW d \in Matches(Home, i), Reply(p, "found", d)
        PROVE  Kept
    <3>1. d \in ActiveOf(docs, i) /\ d \in DocIds
      BY <2>3 DEF ActiveOf
    <3>2. d # NoDoc /\ ActiveOf(docs, i) \subseteq {d}
      BY <3>1, NoDocAssumption DEF Mirroring, DocInv, OneActive, ActiveOf
    <3>3. Sound(cursor, docs, op, version, [t EXCEPT !.answer = "found", !.got = d])
      BY <1>1, <1>4, <2>1, <2>2, <3>2, ReplySound
    <3>4. QED
      BY <1>1, <2>5, <3>3, ReplyKept
  <2>6. QED
    BY <1>2, <2>2, <2>4, <2>5
<1>5. t.pc # "lookup"
  BY PushFacts DEF PushPC
<1>6. QED
  BY <1>1, <1>3, <1>4, <1>5

\* What the adapter returns is the source as it is now.
LEMMA FetchedFits ==
    ASSUME Mirroring, NEW t \in Task, t.ref \in Items, t.token <= version[t.ref], t.token \in Nat,
           t.before = NoRow
    PROVE  /\ Len(Fetched(t)) \in Nat
           /\ \A k \in 1 .. Len(Fetched(t)) :
                 Fits(cursor, docs, op, version, t, Fetched(t)[k])
           /\ \A k \in 2 .. Len(Fetched(t)) : Fetched(t)[k].item \notin Primary
           /\ \A k, l \in 1 .. Len(Fetched(t)) :
                 Fetched(t)[k].item = Fetched(t)[l].item
                    => Fetched(t)[k].payload = Fetched(t)[l].payload
<1> DEFINE first == [item |-> t.ref, token |-> t.token, payload |-> Current(t.ref)]
           deps == Dependents[t.ref]
           dep(k) == [item |-> deps[k], token |-> version[deps[k]],
                      payload |-> Current(deps[k])]
           rest == [k \in 1 .. Len(deps) |-> dep(k)]
<1>1. /\ deps \in Seq(Items) /\ Len(deps) \in Nat
      /\ \A k \in 1 .. Len(deps) : deps[k] \in Items /\ deps[k] \notin Primary
  BY DependentsAssumption, PrimaryAssumption, LenProperties, ElementOfSeq
<1>2. /\ version \in [Items -> Versions] /\ Versions \subseteq Nat
      /\ SourceOK /\ cursor \in [Items -> Row \cup {NoRow}]
  BY DocFacts DEF Mirroring, Base, TypedSync, TypeInv
<1>3. /\ first.item = t.ref /\ first.token = t.token /\ first.payload = Current(t.ref)
      /\ \A k : /\ dep(k).item = deps[k] /\ dep(k).token = version[deps[k]]
                /\ dep(k).payload = Current(deps[k])
  OBVIOUS
<1>4. Fetched(t) = <<first>> \o rest
  BY DEF Fetched
<1> HIDE DEF first, deps, dep
<1>5. \A k \in 1 .. Len(deps) : rest[k] = dep(k)
  OBVIOUS
<1>6. rest \in Seq({dep(k) : k \in 1 .. Len(deps)}) /\ Len(rest) = Len(deps)
  BY <1>1
<1> HIDE DEF rest
<1>7. /\ Len(Fetched(t)) = 1 + Len(deps)
      /\ \A k \in 1 .. Len(Fetched(t)) :
            Fetched(t)[k] = IF k = 1 THEN first ELSE rest[k - 1]
  <2> DEFINE S == {first} \cup {dep(k) : k \in 1 .. Len(deps)}
  <2>1. <<first>> \in Seq(S) /\ rest \in Seq(S) /\ Len(<<first>>) = 1 /\ <<first>>[1] = first
    BY <1>6
  <2>2. /\ Len(<<first>> \o rest) = Len(<<first>>) + Len(rest)
        /\ \A k \in 1 .. Len(<<first>>) + Len(rest) :
              (<<first>> \o rest)[k] = IF k <= Len(<<first>>) THEN <<first>>[k]
                                       ELSE rest[k - Len(<<first>>)]
    <3> HIDE DEF S
    <3>1. QED
      BY <2>1, ConcatProperties
  <2>3. QED
    BY <1>1, <1>4, <1>6, <2>1, <2>2
<1>8. ASSUME NEW k \in 1 .. Len(Fetched(t))
      PROVE  \/ k = 1 /\ Fetched(t)[k] = first
             \/ k # 1 /\ k - 1 \in 1 .. Len(deps) /\ Fetched(t)[k] = dep(k - 1)
  BY <1>1, <1>5, <1>7
<1>9. ASSUME NEW x, x = first \/ (\E k \in 1 .. Len(deps) : x = dep(k))
      PROVE  /\ x.item \in Items /\ x.token <= version[x.item]
             /\ x.payload = Bytes[x.item][version[x.item]]
             /\ Fits(cursor, docs, op, version, t, x)
  <2>1. /\ x.item \in Items /\ x.token <= version[x.item]
        /\ x.payload = Bytes[x.item][version[x.item]]
    <3>1. CASE x = first
      BY <1>3, <3>1 DEF Current
    <3>2. CASE x # first
      <4>1. PICK k \in 1 .. Len(deps) : x = dep(k)
        BY <1>9, <3>2
      <4>2. deps[k] \in Items /\ version[deps[k]] \in Nat
        BY <1>1, <1>2
      <4>3. version[deps[k]] <= version[deps[k]]
        BY <4>2
      <4>4. QED
        BY <1>3, <4>1, <4>2, <4>3 DEF Current
    <3>3. QED
      BY <3>1, <3>2
  <2>2. version[x.item] \in Versions /\ version[x.item] <= version[x.item]
    <3>1. version[x.item] \in Versions /\ version[x.item] \in Nat
      BY <1>2, <2>1
    <3>2. QED
      BY <3>1
  <2>3. AtMost(docs, op, x.item, version[x.item])
    BY <2>1 DEF Mirroring, DocInv, Behind
  <2>4. cursor[x.item] # NoRow => cursor[x.item].token <= version[x.item]
    BY <2>1 DEF Mirroring, RowInv, Has, GoodRow
  <2>5. QED
    BY <2>1, <2>2, <2>3, <2>4 DEF Fits
<1>10. \A k \in 1 .. Len(Fetched(t)) :
          /\ Fetched(t)[k].payload = Bytes[Fetched(t)[k].item][version[Fetched(t)[k].item]]
          /\ Fits(cursor, docs, op, version, t, Fetched(t)[k])
  BY <1>8, <1>9
<1>11. \A k \in 2 .. Len(Fetched(t)) : Fetched(t)[k].item \notin Primary
  <2>1. ASSUME NEW k \in 2 .. Len(Fetched(t))
        PROVE  Fetched(t)[k].item \notin Primary
    <3>1. k \in 1 .. Len(Fetched(t)) /\ k # 1
      BY <1>1, <1>7
    <3>2. QED
      BY <1>1, <1>3, <1>8, <3>1
  <2>2. QED
    BY <2>1
<1>12. Len(Fetched(t)) \in Nat
  BY <1>1, <1>7
<1>13. ASSUME NEW k \in 1 .. Len(Fetched(t)), NEW l \in 1 .. Len(Fetched(t)),
              Fetched(t)[k].item = Fetched(t)[l].item
       PROVE  Fetched(t)[k].payload = Fetched(t)[l].payload
  BY <1>10, <1>13
<1>14. QED
  BY <1>10, <1>11, <1>12, <1>13, Zenon

LEMMA ServeFetchKept ==
    ASSUME MirrorConditions, Mirroring, NEW p \in Tasks, ServeFetch(p)
    PROVE  Kept
<1> DEFINE t == task[p]
<1>1. Quiet /\ UNCHANGED cursor /\ t.pc = "fetch" /\ t.answer = "none" /\ t.pc \in PushPC \ {"lookup"}
  BY DEF ServeFetch, Waits, Quiet, srcVars, ragVars, PushPC
<1>2. /\ t \in Task /\ Pushable(cursor, docs, op, version, t) /\ Placed(cursor, docs, t)
      /\ t.ref \in Items
  BY <1>1, PushFacts
<1>3. t.before = NoRow /\ IsPrimary(t)
  BY <1>1, <1>2 DEF Placed, IsPrimary
<1>4. CASE Reply(p, "absent", NoDoc)
  <2>1. Sound(cursor, docs, op, version, [t EXCEPT !.answer = "absent", !.got = NoDoc])
    BY <1>1, <1>2, <1>3, ReplySound
  <2>2. QED
    BY <1>1, <1>4, <2>1, ReplyKept
<1>5. CASE live[t.ref] /\ Become(p, [t EXCEPT !.answer = "fetched", !.todo = Fetched(t)])
  <2> DEFINE u == [t EXCEPT !.answer = "fetched", !.todo = Fetched(t)]
             todo == Fetched(t)
  <2>1. /\ u.pc = "fetch" /\ u.ref = t.ref /\ u.token = t.token /\ u.home = t.home
        /\ u.lib = t.lib /\ u.todo = todo /\ u.before = NoRow
    BY <1>1, <1>2, <1>3 DEF Task
  <2>2. todo # <<>> /\ Head(todo).item = t.ref
    BY <1>2, FetchedType DEF Mirroring, Base, TypedSync, TypeInv
  <2>3. t.token \in Nat /\ t.token <= version[t.ref] /\ t.ref \in Primary /\ t.token \in Versions
    BY <1>2, DocFacts DEF Pushable, Carries, Mirroring
  <2>4. /\ \A k \in 1 .. Len(todo) : Fits(cursor, docs, op, version, t, todo[k])
        /\ \A k \in 2 .. Len(todo) : todo[k].item \notin Primary
        /\ \A k, l \in 1 .. Len(todo) :
              todo[k].item = todo[l].item => todo[k].payload = todo[l].payload
    BY <1>2, <1>3, <2>3, FetchedFits
  <2>5. Become(p, u)
    BY <1>5
  <2> HIDE DEF u, todo
  <2>6. \A x : Fits(cursor, docs, op, version, t, x) => Fits(cursor, docs, op, version, u, x)
    BY <1>3, <2>1 DEF Fits
  <2>7. Carries(cursor, docs, op, version, u)
    BY <1>2, <1>3, <2>1, <2>4, <2>6 DEF Carries, Pushable
  <2>8. Subject(u) = t.ref
    BY <2>1, <2>2 DEF Subject
  <2>9. NotYet(cursor, u)
    <3>1. NotYet(cursor, t)
      BY <1>2, <1>3 DEF Pushable
    <3>2. QED
      BY <2>1, <3>1 DEF NotYet
  <2>10. Known(cursor, docs, t.ref)
    BY <1>2, <1>5, KnownNames DEF Gone
  <2>11. Placed(cursor, docs, u)
    BY <2>1, <2>8, <2>10 DEF Placed
  <2>12. Sound(cursor, docs, op, version, u)
    BY <2>1, <2>3, <2>7, <2>9, <2>11 DEF Sound
  <2>13. QED
    BY <1>1, <2>5, <2>12, QuietTask
<1>6. QED
  BY <1>4, <1>5 DEF ServeFetch

\* What a call carries is sound of other documents too, when they are no later
\* for what it has still to push.
LEMMA CarriesDocs ==
    ASSUME DistinctVersions, NEW C, NEW D, NEW O, NEW V, NEW t \in Task, t.todo # <<>>,
           Carries(C, D, O, V, t), NEW E, NEW P, NEW v \in Versions,
           Head(t.todo).payload = Bytes[Subject(t)][v],
           \A j \in Items, w \in Versions :
              (j # Subject(t) \/ w = v) /\ AtMost(D, O, j, w) => AtMost(E, P, j, w),
           t.before # NoRow => AtLeastOf(E, t.ref, t.before.token)
    PROVE  Carries(C, E, P, V, t)
<1>1. ASSUME NEW k \in 1 .. Len(t.todo)
      PROVE  Fits(C, E, P, V, t, t.todo[k])
  <2> DEFINE x == t.todo[k]
  <2>1. Fits(C, D, O, V, t, x) /\ x.item \in Items
    BY ConcernsFacts DEF Carries, SourceItem
  <2>2. x.item = Subject(t) => x.payload = Bytes[Subject(t)][v]
    BY HeadFacts
  <2>3. Subject(t) \in Items
    BY ConcernsFacts
  <2> HIDE DEF x
  <2>4. PICK w \in Versions :
           /\ x.payload = Bytes[x.item][w]
           /\ x.token <= w /\ w <= V[x.item]
           /\ AtMost(D, O, x.item, w)
           /\ C[x.item] # NoRow => C[x.item].token <= w
           /\ x.item = t.ref /\ t.before # NoRow => t.before.token <= w
    BY <2>1 DEF Fits
  <2>5. x.item # Subject(t) \/ w = v
    BY <2>2, <2>3, <2>4 DEF DistinctVersions
  <2>6. AtMost(E, P, x.item, w)
    BY <2>1, <2>4, <2>5
  <2>7. Fits(C, E, P, V, t, x)
    BY <2>4, <2>6, Zenon DEF Fits
  <2>8. QED
    BY <2>7 DEF x
<1>2. t.before # NoRow => GoodRow(E, V, t.ref, t.before)
  BY DEF Carries, GoodRow
<1>3. QED
  BY <1>1, <1>2 DEF Carries

\* The bytes are this item's alone: there is nothing to refuse them for.
LEMMA NoDuplicates ==
    ASSUME DistinctPayloads, Base, DocInv, NEW i \in Items, NEW v \in Versions,
           ActiveOf(docs, i) = {}
    PROVE  Duplicates(Home, i, Bytes[i][v]) = {}
<1>1. ASSUME NEW e \in Duplicates(Home, i, Bytes[i][v])
      PROVE  FALSE
  <2>1. e \in DocIds /\ docs[e].state = "active"
        /\ (docs[e].key = i \/ docs[e].content = Bytes[i][v])
    BY DEF Duplicates, Active
  <2>2. docs[e].key # i
    BY <2>1 DEF ActiveOf
  <2>3. docs[e].key \in Items
    BY <2>1, DocFacts
  <2>4. Until(docs[e].key, docs[e].content, version[docs[e].key])
    BY <2>1, <2>3 DEF DocInv, Behind, AtMost, ActiveOf
  <2>5. PICK w \in Versions : docs[e].content = Bytes[docs[e].key][w]
    BY <2>4 DEF Until
  <2>6. QED
    BY <2>1, <2>2, <2>3, <2>5 DEF DistinctPayloads
<1>2. QED
  BY <1>1

\* The version that a call is pushing.
LEMMA PushedVersion ==
    ASSUME Mirroring, NEW p \in Tasks, task[p].pc \in PushPC, task[p].todo # <<>>
    PROVE  \E v \in Versions :
              LET t == task[p]
                  i == Subject(t)
                  x == Head(t.todo)
              IN  /\ x.payload = Bytes[i][v] /\ x.token \in Nat /\ v \in Nat
                  /\ x.token <= v /\ v <= version[i]
                  /\ AtMost(docs, op, i, v)
                  /\ cursor[i] # NoRow => cursor[i].token <= v
                  /\ i = t.ref /\ t.before # NoRow => t.before.token <= v
<1> DEFINE t == task[p]
           i == Subject(t)
           x == Head(t.todo)
<1>1. t \in Task /\ Carries(cursor, docs, op, version, t)
  BY PushFacts DEF Pushable
<1>2. x \in SourceItem /\ x.item = i /\ Fits(cursor, docs, op, version, t, x)
  BY <1>1, HeadFacts
<1>3. x.token \in Nat /\ Versions \subseteq Nat
  BY <1>2, DocFacts DEF SourceItem, Mirroring
<1> HIDE DEF x, i
<1>4. \E v \in Versions :
         /\ x.payload = Bytes[i][v] /\ x.token \in Nat /\ v \in Nat
         /\ x.token <= v /\ v <= version[i]
         /\ AtMost(docs, op, i, v)
         /\ cursor[i] # NoRow => cursor[i].token <= v
         /\ i = t.ref /\ t.before # NoRow => t.before.token <= v
  BY <1>2, <1>3 DEF Fits
<1>5. QED
  BY <1>4 DEF x, i

LEMMA ServeCreateKept ==
    ASSUME MirrorConditions, Mirroring, OneCallPerItem, NEW p \in Tasks, ServeCreate(p)
    PROVE  Kept
<1> DEFINE t == task[p]
           i == Subject(t)
           c == Head(t.todo).payload
<1>1. /\ t.pc = "create" /\ t.answer = "none" /\ t.pc \in PushPC \ {"lookup"}
      /\ UNCHANGED <<version, live, cursor>>
  BY DEF ServeCreate, Waits, srcVars, PushPC
<1>2. /\ t \in Task /\ t.todo # <<>> /\ i \in Items /\ i \in Concerns(t) /\ Busy(t)
      /\ t.lib = Home /\ t.ref \in Items
      /\ Pushable(cursor, docs, op, version, t) /\ ActiveOf(docs, i) = {}
  BY <1>1, PushFacts DEF WellFormed, Placed
<1>3. PICK v \in Versions :
         /\ c = Bytes[i][v] /\ Head(t.todo).token \in Nat /\ v \in Nat
         /\ Head(t.todo).token <= v /\ v <= version[i]
         /\ AtMost(docs, op, i, v)
         /\ cursor[i] # NoRow => cursor[i].token <= v
         /\ i = t.ref /\ t.before # NoRow => t.before.token <= v
  BY <1>1, <1>2, PushedVersion
<1>4. Duplicates(Home, i, c) = {}
  BY <1>2, <1>3, NoDuplicates DEF MirrorConditions, Mirroring
<1>5. PICK d \in DocIds \cup {NoDoc} : AddDocument(Home, i, c, d) /\ Reply(p, "created", d)
  BY <1>2, <1>4 DEF ServeCreate, RefuseDuplicate
<1>6. /\ d \in DocIds
      /\ DocInv'
      /\ \A j \in Items : j # i => DocCalm(j)
      /\ ActiveOf(docs', i) = {d}
      /\ \A w \in Nat : v <= w => AtMost(docs', op', i, w)
      /\ \A w \in Nat : w <= v => AtLeastOf(docs', i, w)
  BY <1>1, <1>2, <1>3, <1>5, CreateDocument DEF Mirroring
<1>7. /\ version \in [Items -> Versions] /\ cursor \in [Items -> Row \cup {NoRow}]
      /\ Versions \subseteq Nat /\ Tokens \subseteq Nat
  BY DocFacts DEF Mirroring
<1> HIDE DEF i, c, t
<1>8. RowInv'
  <2>1. ASSUME NEW j \in Items, cursor'[j] # NoRow
        PROVE  \/ cursor'[j] \in {NoRow, cursor[j]} /\ DocCalm(j)
               \/ GoodRow(docs', version', j, cursor'[j])
    <3>1. CASE j # i
      BY <1>1, <1>6, <3>1
    <3>2. CASE j = i
      <4>1. cursor[i] # NoRow /\ cursor[i] \in Row /\ GoodRow(docs, version, i, cursor[i])
        BY <1>1, <1>7, <2>1, <3>2 DEF Mirroring, RowInv, Has
      <4>2. cursor[i].token \in Nat
        BY <1>7, <4>1 DEF Row
      <4>3. AtLeastOf(docs', i, cursor[i].token)
        BY <1>3, <1>6, <4>1, <4>2
      <4>4. QED
        BY <1>1, <3>2, <4>1, <4>3 DEF GoodRow
    <3>3. QED
      BY <3>1, <3>2
  <2>2. QED
    BY <1>1, <1>7, <2>1, RowsStep DEF Mirroring
<1>9. Carries(cursor, docs', op', version, t)
  <2>1. ASSUME NEW j \in Items, NEW w \in Versions, j # i \/ w = v, AtMost(docs, op, j, w)
        PROVE  AtMost(docs', op', j, w)
    <3>1. w \in Nat
      BY <1>7
    <3>2. CASE j # i
      BY <1>6, <2>1, <3>1, <3>2 DEF DocCalm
    <3>3. CASE j = i
      <4>1. v <= v
        BY <1>3
      <4>2. QED
        BY <1>3, <1>6, <2>1, <3>3, <4>1
    <3>4. QED
      BY <3>2, <3>3
  <2>2. ASSUME t.before # NoRow
        PROVE  AtLeastOf(docs', t.ref, t.before.token)
    <3>1. AtLeastOf(docs, t.ref, t.before.token)
      BY <1>2, <2>2 DEF Pushable, Carries, GoodRow
    <3>2. t.before.token \in Tokens /\ t.before.token \in Nat
      BY <1>2, <1>7, <2>2 DEF Task, Row
    <3>3. CASE t.ref # i
      BY <1>2, <1>6, <3>1, <3>2, <3>3 DEF DocCalm
    <3>4. CASE t.ref = i
      BY <1>3, <1>6, <2>2, <3>2, <3>4
    <3>5. QED
      BY <3>3, <3>4
  <2>3. Carries(cursor, docs, op, version, t) /\ DistinctVersions
        /\ Head(t.todo).payload = Bytes[Subject(t)][v]
    BY <1>2, <1>3 DEF Pushable, MirrorConditions, i, c
  <2>4. \A j \in Items, w \in Versions :
           (j # Subject(t) \/ w = v) /\ AtMost(docs, op, j, w) => AtMost(docs', op', j, w)
    BY <2>1 DEF i
  <2>5. QED
    BY <1>2, <2>2, <2>3, <2>4, CarriesDocs
<1>10. Sound(cursor', docs', op', version', [t EXCEPT !.answer = "created", !.got = d])
  <2>1. Pushable(cursor, docs', op', version, t)
    BY <1>2, <1>9 DEF Pushable
  <2>2. d # NoDoc /\ AtLeastOf(docs', Subject(t), Head(t.todo).token)
        /\ ActiveOf(docs', Subject(t)) \subseteq {d}
    BY <1>3, <1>6, NoDocAssumption DEF i
  <2>3. Sound(cursor, docs', op', version, [t EXCEPT !.answer = "created", !.got = d])
    BY <1>1, <1>2, <2>1, <2>2, ReplySound
  <2>4. QED
    BY <1>1, <2>3
<1>11. Become(p, [t EXCEPT !.answer = "created", !.got = d])
  BY <1>5 DEF Reply, Become, t
<1>12. \A j \in Items \ Concerns(t) : Calm(j)
  BY <1>1, <1>2, <1>6 DEF Calm, RowCalm
<1>13. \A q \in Tasks \ {p} : Busy(task[q]) => \A j \in Concerns(task[q]) : Calm(j)
  BY <1>2, <1>12, Undisturbed DEF Mirroring, t
<1>14. QED
  BY <1>1, <1>6, <1>7, <1>8, <1>10, <1>11, <1>13, TasksStep DEF Kept, Mirroring

LEMMA ServeReviseKept ==
    ASSUME MirrorConditions, Mirroring, OneCallPerItem, NEW p \in Tasks, ServeRevise(p)
    PROVE  Kept
<1> DEFINE t == task[p]
           i == Subject(t)
           d == t.doc
           k == RevisionKey(t)
<1>1. /\ t.pc = "revise" /\ t.answer = "none" /\ t.pc \in PushPC \ {"lookup"}
      /\ UNCHANGED <<version, live, cursor>>
  BY DEF ServeRevise, Waits, srcVars, PushPC
<1>2. /\ t \in Task /\ t.todo # <<>> /\ i \in Items /\ i \in Concerns(t) /\ Busy(t)
      /\ t.ref \in Items
      /\ Pushable(cursor, docs, op, version, t)
      /\ d # NoDoc /\ ActiveOf(docs, i) \subseteq {d}
  BY <1>1, PushFacts DEF WellFormed, Placed
<1>3. ASSUME Quiet, NEW a, Reply(p, a, NoDoc), a = "notfound" => ActiveOf(docs, i) = {}
      PROVE  Kept
  <2>1. Sound(cursor, docs, op, version, [t EXCEPT !.answer = a, !.got = NoDoc])
    BY <1>1, <1>2, <1>3, ReplySound
  <2>2. QED
    BY <1>1, <1>3, <2>1, ReplyKept
<1>4. CASE RefuseGone(d) /\ Reply(p, "notfound", NoDoc)
  <2>1. ActiveOf(docs, i) = {}
    BY <1>2, <1>4 DEF RefuseGone, Active, ActiveOf
  <2>2. QED
    BY <1>1, <1>3, <1>4, <2>1 DEF RefuseGone, Quiet
<1>5. CASE RefuseBusy(d, k) /\ Reply(p, "conflict", NoDoc)
  BY <1>1, <1>3, <1>5 DEF RefuseBusy, Quiet
<1>6. CASE Dedupe(d, k) /\ Reply(p, "accepted", NoDoc)
  BY <1>1, <1>3, <1>6 DEF Dedupe, Quiet
<1>7. CASE Admit(d, k) /\ Reply(p, "accepted", NoDoc)
  <2>1. PICK v \in Versions :
           /\ Head(t.todo).payload = Bytes[i][v] /\ v \in Nat /\ v <= version[i]
           /\ AtMost(docs, op, i, v)
    BY <1>1, <1>2, PushedVersion
  <2>2. Mine(docs, i, d)
    BY TaskOwned DEF Mirroring, Base, TypedSync
  <2>3. d \in DocIds /\ docs[d].state = "active" /\ docs[d].key = i /\ d \in ActiveOf(docs, i)
    BY <1>7, <2>2 DEF Admit, Active, Mine, ActiveOf
  <2>4. k = <<i, Bytes[i][v]>> /\ k \in RevisionKeys /\ k[2] = Bytes[i][v]
    <3>1. Head(t.todo) \in SourceItem
      BY <1>2, SubjectType
    <3>2. QED
      BY <1>2, <2>1, <3>1 DEF RevisionKey, RevisionKeys, SourceItem
  <2>5. Until(i, k[2], v) /\ Until(i, k[2], version[i])
    <3>1. v <= v
      BY <2>1
    <3>2. QED
      BY <2>1, <2>4, <3>1 DEF Until
  <2>6. Older(i, docs[d].content, k[2])
    <3>1. Until(i, docs[d].content, v)
      BY <2>1, <2>3 DEF AtMost
    <3>2. QED
      BY <1>2, <2>1, <2>4, <3>1, ByteOrder DEF MirrorConditions
  <2> HIDE DEF k, i, d, t
  <2>7. /\ DocInv' /\ UNCHANGED docs
        /\ \A j \in Items : j # i => DocCalm(j)
        /\ \A j \in Items, w \in Nat :
              AtMost(docs, op, j, w) /\ Until(j, k[2], w) => AtMost(docs', op', j, w)
    BY <1>1, <1>7, <2>3, <2>4, <2>5, <2>6, AdmitRevision DEF Mirroring
  <2>8. version \in [Items -> Versions] /\ Versions \subseteq Nat
    BY DocFacts DEF Mirroring
  <2>9. RowInv'
    BY <1>1, <2>7 DEF Mirroring, RowInv, Has, GoodRow, AtLeastOf, ActiveOf
  <2>10. Carries(cursor, docs', op', version, t)
    <3>1. ASSUME NEW j \in Items, NEW w \in Versions, j # i \/ w = v, AtMost(docs, op, j, w)
          PROVE  AtMost(docs', op', j, w)
      <4>1. w \in Nat
        BY <2>8
      <4>2. CASE j # i
        BY <2>7, <3>1, <4>1, <4>2 DEF DocCalm
      <4>3. CASE j = i
        BY <1>2, <2>1, <2>5, <2>7, <3>1, <4>3
      <4>4. QED
        BY <4>2, <4>3
    <3>2. t.before # NoRow => AtLeastOf(docs', t.ref, t.before.token)
      BY <1>2, <2>7 DEF Pushable, Carries, GoodRow
    <3>3. Carries(cursor, docs, op, version, t) /\ DistinctVersions
          /\ Head(t.todo).payload = Bytes[Subject(t)][v]
      BY <1>2, <2>1 DEF Pushable, MirrorConditions, i
    <3>4. \A j \in Items, w \in Versions :
             (j # Subject(t) \/ w = v) /\ AtMost(docs, op, j, w) => AtMost(docs', op', j, w)
      BY <3>1 DEF i
    <3>5. QED
      BY <1>2, <3>2, <3>3, <3>4, CarriesDocs
  <2>11. Sound(cursor', docs', op', version', [t EXCEPT !.answer = "accepted", !.got = NoDoc])
    <3>1. Pushable(cursor, docs', op', version, t)
      BY <1>2, <2>10 DEF Pushable
    <3>2. t.doc # NoDoc /\ ActiveOf(docs', Subject(t)) \subseteq {t.doc}
      BY <1>2, <2>7 DEF i, d
    <3>3. Sound(cursor, docs', op', version, [t EXCEPT !.answer = "accepted", !.got = NoDoc])
      BY <1>1, <1>2, <3>1, <3>2, ReplySound
    <3>4. QED
      BY <1>1, <3>3
  <2>12. Become(p, [t EXCEPT !.answer = "accepted", !.got = NoDoc])
    BY <1>7 DEF Reply, Become, t
  <2>13. \A j \in Items \ Concerns(t) : Calm(j)
    BY <1>1, <1>2, <2>7 DEF Calm, RowCalm
  <2>14. \A q \in Tasks \ {p} : Busy(task[q]) => \A j \in Concerns(task[q]) : Calm(j)
    BY <1>2, <2>13, Undisturbed DEF Mirroring, t
  <2>15. QED
    BY <1>1, <2>7, <2>8, <2>9, <2>11, <2>12, <2>14, TasksStep DEF Kept, Mirroring
<1>8. QED
  BY <1>4, <1>5, <1>6, <1>7 DEF ServeRevise

\* Nothing but documents changes for the calls, and for the better.
LEMMA CalmKept ==
    ASSUME MirrorConditions, Mirroring, UNCHANGED cursor, version' \in [Items -> Versions],
           DocInv', \A i \in Items : DocCalm(i)
    PROVE  /\ RowInv'
           /\ \A q \in Tasks : Busy(task[q]) => \A i \in Concerns(task[q]) : Calm(i)
<1>1. RowInv'
  BY RowsStep DEF Mirroring
<1>2. \A i \in Items : Calm(i)
  BY DEF Calm, RowCalm
<1>3. QED
  BY <1>1, <1>2, TaskFacts, ConcernsFacts DEF Mirroring, Base, TypedSync

\* Calls stay as they are, or end without a trace.
LEMMA TasksStill ==
    ASSUME Base, TasksSound, version' \in [Items -> Versions],
           \A q \in Tasks : task'[q] = task[q] \/ task'[q].pc = "idle",
           \A q \in Tasks : Busy(task[q]) => \A i \in Concerns(task[q]) : Calm(i)
    PROVE  TasksSound'
<1>1. TypeInv /\ version \in [Items -> Versions]
  BY DEF Base, TypedSync, TypeInv, SourceOK
<1>2. ASSUME NEW q \in Tasks
      PROVE  Sound(cursor', docs', op', version', task'[q])
  <2>1. CASE task'[q].pc = "idle"
    <3> DEFINE u == task'[q]
    <3>1. u.pc \in {"idle", "dlookup", "delete", "dpoll"}
      BY <2>1
    <3> HIDE DEF u
    <3>2. Sound(cursor', docs', op', version', u)
      BY <3>1, IdleSound
    <3>3. QED
      BY <3>2 DEF u
  <2>2. CASE task'[q] = task[q]
    <3>1. task[q] \in Task /\ WellFormed(task[q])
      BY <1>1, TaskFacts
    <3>2. Sound(cursor, docs, op, version, task[q])
      BY DEF TasksSound
    <3>3. Sound(cursor', docs', op', version', task[q])
      BY <1>1, <3>1, <3>2, SoundCalm
    <3>4. QED
      BY <2>2, <3>3
  <2>3. QED
    BY <2>1, <2>2
<1>3. QED
  BY <1>2 DEF TasksSound

LEMMA StillKept ==
    ASSUME MirrorConditions, Mirroring, UNCHANGED cursor, version' \in [Items -> Versions],
           DocInv', \A i \in Items : DocCalm(i),
           \A q \in Tasks : task'[q] = task[q] \/ task'[q].pc = "idle"
    PROVE  Kept
  BY CalmKept, TasksStill DEF Kept, Mirroring

LEMMA QuietStill ==
    ASSUME MirrorConditions, Mirroring, Quiet, UNCHANGED cursor,
           \A q \in Tasks : task'[q] = task[q] \/ task'[q].pc = "idle"
    PROVE  Kept
  BY QuietDocs, StillKept DEF Mirroring

\* A delete is requested for an item that is gone.
LEMMA ServeDeleteKept ==
    ASSUME MirrorConditions, Mirroring, NEW p \in Tasks, ServeDelete(p)
    PROVE  Kept
<1> DEFINE t == task[p]
           d == t.doc
<1>1. t.pc = "delete" /\ UNCHANGED <<version, live, cursor>> /\ t \in Task /\ t.ref \in Items
  BY TaskFacts DEF ServeDelete, Waits, srcVars, Mirroring, Base, TypedSync
<1>2. \A C, D, O, V, a : Sound(C, D, O, V, [t EXCEPT !.answer = a, !.got = NoDoc])
  <2>1. ASSUME NEW C, NEW D, NEW O, NEW V, NEW a
        PROVE  Sound(C, D, O, V, [t EXCEPT !.answer = a, !.got = NoDoc])
    <3> DEFINE u == [t EXCEPT !.answer = a, !.got = NoDoc]
    <3>1. u.pc = "delete"
      BY <1>1, ReplyFields
    <3> HIDE DEF u
    <3>2. Sound(C, D, O, V, u)
      BY <3>1, IdleSound
    <3>3. QED
      BY <3>2 DEF u
  <2>2. QED
    BY <2>1
<1>3. ASSUME Quiet, NEW a, Reply(p, a, NoDoc)
      PROVE  Kept
  BY <1>1, <1>2, <1>3, ReplyKept
<1>4. CASE RefuseGone(d) /\ Reply(p, "notfound", NoDoc)
  BY <1>1, <1>3, <1>4 DEF RefuseGone, Quiet
<1>5. CASE RefuseBusy(d, Deletion) /\ Reply(p, "conflict", NoDoc)
  BY <1>1, <1>3, <1>5 DEF RefuseBusy, Quiet
<1>6. CASE Admit(d, Deletion) /\ Reply(p, "accepted", NoDoc)
  <2>1. Mine(docs, Subject(t), d) /\ t.todo = <<>>
    BY <1>1, TaskOwned DEF Mirroring, Base, TypedSync, OwnInv, LocalOwned, TasksOwned, Holds
  <2>2. d \in DocIds /\ docs[d].key = t.ref
    BY <1>6, <2>1 DEF Admit, Active, Mine, Subject
  <2>3. Gone(t.ref)
    BY <1>1 DEF Mirroring, Base, GoneInv, DeletesGone, Deleting
  <2>4. DocInv' /\ \A i \in Items : DocCalm(i)
    BY <1>1, <1>6, <2>2, <2>3, AdmitDeletion DEF Mirroring
  <2>5. version' \in [Items -> Versions]
    BY <1>1, DocFacts DEF Mirroring
  <2>6. /\ RowInv'
        /\ \A q \in Tasks : Busy(task[q]) => \A i \in Concerns(task[q]) : Calm(i)
    BY <1>1, <2>4, <2>5, CalmKept
  <2>7. Become(p, [t EXCEPT !.answer = "accepted", !.got = NoDoc])
    BY <1>6 DEF Reply, Become
  <2>8. Sound(cursor', docs', op', version', [t EXCEPT !.answer = "accepted", !.got = NoDoc])
    BY <1>2
  <2>9. QED
    BY <2>4, <2>5, <2>6, <2>7, <2>8, TasksStep DEF Kept, Mirroring
<1>7. QED
  BY <1>4, <1>5, <1>6 DEF ServeDelete

LEMMA ServeKept ==
    ASSUME MirrorConditions, Mirroring, OneCallPerItem, NEW p \in Tasks, Serve(p)
    PROVE  Kept
  BY ServeFindKept, ServeFetchKept, ServeCreateKept, ServeReviseKept, ServeDeleteKept DEF Serve

-----------------------------------------------------------------------------
(* Calls begin and end.                                                    *)

LEMMA PushRefKept ==
    ASSUME MirrorConditions, Mirroring, NEW p \in Tasks, NEW i \in Primary, NEW tok \in Versions,
           PushRef(p, i, tok)
    PROVE  Kept
<1> DEFINE t == Routed(i, tok)
<1>1. /\ Quiet /\ UNCHANGED cursor /\ i \in Items /\ tok \in Tokens /\ tok # NoToken
      /\ tok <= version[i] /\ SourceOK
  BY PrimaryAssumption DEF PushRef, Starts, Quiet, srcVars, ragVars, Tokens, Versions, NoToken,
     Mirroring, Base, TypedSync, TypeInv
<1>2. /\ t \in Task /\ t.home = route[i] /\ t.lib = route[i] /\ t.ref = i /\ t.todo = <<>>
      /\ t.before = NoRow
  BY <1>1, RoutedType
<1>3. t.token = tok
  BY DEF Routed, Blank
<1>4. CASE \E a : Become(p, Outcome(t, a, FALSE))
  BY <1>1, <1>4, EndKept
<1>5. route[i] # Unrouted => route[i] = Home
  BY <1>1 DEF Mirroring, Base, GoneInv, RoutesHome, Anywhere
<1>6. ~(route[i] # Unrouted /\ TokenUnchanged(t) /\ ~Knows(i, route[i]))
  BY <1>1, <1>2, <1>5 DEF TokenUnchanged, Knows, Mirroring, RowInv, GoodRow
<1>7. CASE route[i] # Unrouted /\ ~TokenUnchanged(t) /\ Become(p, Ask(t, "fetch", NoDoc))
  <2>1. Len(t.todo) = 0
    BY <1>2
  <2>2. IsPrimary(t)
    BY <1>2 DEF IsPrimary, Subject
  <2>3. NotYet(cursor, t)
    BY <1>1, <1>2, <1>3, <1>7 DEF NotYet, TokenUnchanged, Has
  <2> HIDE DEF t
  <2>4. Carries(cursor, docs, op, version, t)
    BY <1>1, <1>2, <1>3, <1>5, <1>7, <2>1 DEF Carries
  <2>5. Pushable(cursor, docs, op, version, t)
    BY <1>2, <1>3, <2>3, <2>4 DEF Pushable
  <2>6. Sound(cursor, docs, op, version, Ask(t, "fetch", NoDoc))
    BY <1>2, <2>2, <2>5, AskSound DEF PushPC
  <2>7. QED
    BY <1>1, <1>7, <2>6, QuietTask
<1>8. QED
  BY <1>4, <1>6, <1>7 DEF PushRef

LEMMA DeleteCallKept ==
    ASSUME MirrorConditions, Mirroring, NEW p \in Tasks, NEW i \in Items,
           DeleteByRef(p, i) \/ (\E d \in DocIds : ReapOrphan(p, i, d))
    PROVE  Kept
<1>1. Quiet /\ UNCHANGED cursor
  BY DEF DeleteByRef, ReapOrphan, Starts, Quiet, srcVars, ragVars
<1>2. ASSUME NEW t, NEW a, Become(p, Outcome(t, a, FALSE))
      PROVE  Kept
  BY <1>1, <1>2, EndKept
<1>3. ASSUME NEW t \in Task, NEW pc \in {"dlookup", "delete"}, NEW d,
             Become(p, Ask(t, pc, d))
      PROVE  Kept
  <2> DEFINE u == Ask(t, pc, d)
  <2>1. u.pc = pc
    BY DEF Ask, Task
  <2> HIDE DEF u
  <2>2. Sound(cursor, docs, op, version, u)
    BY <2>1, IdleSound
  <2>3. QED
    BY <1>1, <1>3, <2>2, QuietTask DEF u
<1>4. CASE DeleteByRef(p, i)
  <2>1. Routed(i, NoToken) \in Task
    BY RoutedType DEF Mirroring, Base, TypedSync, TypeInv, Tokens
  <2>2. QED
    BY <1>2, <1>3, <1>4, <2>1 DEF DeleteByRef
<1>5. ASSUME NEW d \in DocIds, ReapOrphan(p, i, d)
      PROVE  Kept
  <2> DEFINE t == [Blank(i, NoToken) EXCEPT !.home = docs[d].lib, !.lib = docs[d].lib]
  <2>1. Become(p, StartReap(t, d)) /\ docs[d].key = i
    BY <1>5 DEF ReapOrphan
  <2>2. docs[d].lib \in Libraries
    BY <2>1, DocFacts, NoDocAssumption, HomeFacts DEF Mirroring, MirrorConditions
  <2>3. t \in Task
    BY <2>2, ReapedRefType
  <2> HIDE DEF t
  <2>4. QED
    BY <1>2, <1>3, <2>1, <2>3 DEF StartReap
<1>6. QED
  BY <1>4, <1>5

LEMMA CallEndsKept ==
    ASSUME MirrorConditions, Mirroring, NEW p \in Tasks, Abort(p) \/ Collect(p)
    PROVE  Kept
<1>1. Quiet /\ UNCHANGED cursor
  BY DEF Abort, Raise, Collect, Quiet, srcVars, ragVars
<1>2. CASE Abort(p)
  BY <1>1, <1>2, EndKept DEF Abort, Raise
<1>3. CASE Collect(p)
  <2>1. \A j : Blank(j, NoToken).pc = "idle"
    BY DEF Blank
  <2>2. task \in [Tasks -> Task]
    BY DEF Mirroring, Base, TypedSync, TypeInv, Local, TasksOK
  <2>3. \A q \in Tasks : task'[q] = task[q] \/ task'[q].pc = "idle"
    BY <1>3, <2>1, <2>2 DEF Collect, Become
  <2>4. QED
    BY <1>1, <2>3, QuietStill
<1>4. QED
  BY <1>2, <1>3

-----------------------------------------------------------------------------
(* The source, the service and the seeder.                                 *)

LEMMA SourceKept ==
    ASSUME MirrorConditions, Mirroring, NEW i \in Items, Edit(i) \/ Vanish(i) \/ Reroute(i)
    PROVE  Kept
<1>1. /\ UNCHANGED <<docs, op, cursor, task>>
      /\ version \in [Items -> Versions] /\ live \in [Items -> BOOLEAN] /\ Versions \subseteq Nat
      /\ MaxVersion \in Nat
  BY DocFacts, VersionAssumption DEF Edit, Vanish, Reroute, ragVars, Mirroring, Base, TypedSync,
     TypeInv, SourceOK
<1>2. GoneRemain
  <2>1. CASE UNCHANGED live
    BY <2>1 DEF GoneRemain
  <2>2. CASE Vanish(i)
    <3>1. live[i]
      BY <2>2 DEF Vanish, MirrorConditions
    <3>2. \A j \in Items : j # i => live'[j] = live[j]
      BY <1>1, <2>2 DEF Vanish
    <3>3. QED
      BY <3>1, <3>2 DEF GoneRemain
  <2>3. QED
    BY <2>1, <2>2 DEF Edit, Reroute
<1>3. /\ version' \in [Items -> Versions]
      /\ \A j \in Items : version'[j] \in Nat /\ version[j] <= version'[j]
  <2>1. CASE UNCHANGED version
    <3>1. \A j \in Items : version[j] \in Nat
      BY <1>1
    <3>2. ASSUME NEW j \in Items
          PROVE  version[j] <= version[j]
      <4>1. version[j] \in Nat
        BY <3>1
      <4>2. QED
        BY <4>1
    <3>3. QED
      BY <1>1, <2>1, <3>1, <3>2, Zenon
  <2>2. CASE Edit(i)
    <3>1. version[i] \in Versions /\ version[i] < MaxVersion
      BY <1>1, <2>2 DEF Edit
    <3>2. version[i] + 1 \in Versions /\ version[i] <= version[i] + 1 /\ version[i] + 1 \in Nat
      BY <1>1, <3>1 DEF Versions
    <3>3. \A j \in Items : version'[j] = IF j = i THEN version[i] + 1 ELSE version[j]
      BY <1>1, <2>2 DEF Edit
    <3>4. version' \in [Items -> Versions]
      BY <1>1, <2>2, <3>2 DEF Edit
    <3>5. ASSUME NEW j \in Items
          PROVE  version'[j] \in Nat /\ version[j] <= version'[j]
      <4>1. CASE j = i
        BY <3>2, <3>3, <4>1
      <4>2. CASE j # i
        <5>1. version[j] \in Nat /\ version'[j] = version[j]
          BY <1>1, <3>3, <4>2
        <5>2. QED
          BY <5>1
      <4>3. QED
        BY <4>1, <4>2
    <3>6. QED
      BY <3>4, <3>5
  <2>3. QED
    BY <2>1, <2>2 DEF Vanish, Reroute
<1>4. DocInv' /\ \A j \in Items : DocCalm(j)
  BY <1>1, <1>2, <1>3, StillDocs DEF Mirroring
<1>5. QED
  BY <1>1, <1>3, <1>4, StillKept

LEMMA ServiceKept ==
    ASSUME MirrorConditions, Mirroring, Service
    PROVE  Kept
<1>1. PICK d \in DocIds : \/ Remove(d)
                          \/ \E k \in OpKeys : Settle(d, k) \/ Misfire(d, k)
  BY DEF Service
<1>2. ~Remove(d)
  BY DEF Remove, MirrorConditions
<1>3. PICK k \in OpKeys : Settle(d, k) \/ Misfire(d, k)
  BY <1>1, <1>2
<1>4. UNCHANGED <<version, live, cursor, task>> /\ version' \in [Items -> Versions]
  BY <1>3, DocFacts DEF Settle, Misfire, srcVars, Mirroring
<1>5. DocInv' /\ \A j \in Items : DocCalm(j)
  <2>1. CASE Settle(d, k) /\ k \in RevisionKeys
    BY <1>4, <2>1, ApplyRevision DEF Settle, Mirroring
  <2>2. CASE Settle(d, k) /\ k = Deletion
    BY <1>4, <2>2, ApplyDeletion DEF Settle, Mirroring
  <2>3. CASE Misfire(d, k)
    BY <1>4, <2>3, AbandonStep DEF Misfire, Mirroring
  <2>4. QED
    BY <1>3, <2>1, <2>2, <2>3 DEF OpKeys
<1>6. QED
  BY <1>4, <1>5, StillKept

\* The seeder's rows claim no version.
LEMMA SeedKept ==
    ASSUME MirrorConditions, Mirroring, NEW d \in DocIds, Seed(d)
    PROVE  Kept
<1> DEFINE i == docs[d].key
           row == [token |-> NoToken, doc |-> d, lib |-> docs[d].lib]
<1>1. /\ Quiet /\ UNCHANGED task /\ i \in Items /\ docs[d].state = "active" /\ d # NoDoc
      /\ docs[d].lib = Home
  BY DocFacts, NoDocAssumption DEF Seed, Quiet, srcVars, ragVars, Active, Mirroring
<1>2. cursor' = [cursor EXCEPT ![i] = row]
  BY <1>1 DEF Seed, Upsert, KeptDoc
<1>3. row.token = NoToken /\ row.doc = d /\ row.lib = docs[d].lib
  OBVIOUS
<1> HIDE DEF row
<1>4. /\ \A j \in Items : cursor'[j] = IF j = i THEN row ELSE cursor[j]
      /\ \A j \in Items : version[j] \in Nat
  BY <1>2, DocFacts DEF Mirroring
<1>5. /\ DocInv' /\ version' \in [Items -> Versions] /\ \A j \in Items : DocCalm(j)
  BY <1>1, QuietDocs DEF Mirroring
<1>6. GoodRow(docs, version, i, row)
  <2>1. NoToken <= version[i]
    BY <1>1, <1>4 DEF NoToken
  <2>2. ASSUME NEW e \in ActiveOf(docs, i)
        PROVE  From(i, docs[e].content, NoToken)
    <3>1. Until(i, docs[e].content, version[i])
      BY <1>1, <2>2 DEF Mirroring, DocInv, Behind, AtMost
    <3>2. PICK w \in Versions : docs[e].content = Bytes[i][w]
      BY <3>1 DEF Until
    <3>3. NoToken <= w
      BY VersionAssumption DEF Versions, NoToken
    <3>4. QED
      BY <3>2, <3>3 DEF From
  <2>3. QED
    BY <1>1, <1>3, <2>1, <2>2 DEF GoodRow, AtLeastOf
<1>7. RowInv'
  <2>1. GoodRow(docs', version', i, row)
    BY <1>1, <1>6 DEF Quiet
  <2>2. QED
    BY <1>4, <1>5, <2>1, RowsStep DEF Mirroring
<1>8. \A j \in Items : Calm(j)
  <2>1. RowCalm(i)
    <3>1. ActiveOf(docs', i) \subseteq {d}
      BY <1>1 DEF Quiet, Mirroring, DocInv, OneActive, ActiveOf
    <3>2. QED
      BY <1>1, <1>3, <1>4, <3>1 DEF RowCalm, Known
  <2>2. QED
    BY <1>4, <1>5, <2>1 DEF Calm, RowCalm
<1>9. TasksSound'
  <2>1. \A q \in Tasks : task'[q] = task[q]
    BY <1>1
  <2>2. \A q \in Tasks : Busy(task[q]) => \A j \in Concerns(task[q]) : Calm(j)
    BY <1>8, TaskFacts, ConcernsFacts DEF Mirroring, Base, TypedSync
  <2>3. QED
    BY <1>5, <2>1, <2>2, TasksStill DEF Mirroring
<1>10. QED
  BY <1>5, <1>7, <1>9 DEF Kept

\* What a step of the sweeps does to the rest, in the terms of Orchestrator; a
\* call to push is about a primary item and carries the token of a version.
MirrorSteps ==
    \/ \E p \in Tasks : \/ \E i \in Primary, tok \in Versions : PushRef(p, i, tok)
                        \/ \E i \in Items : \/ DeleteByRef(p, i)
                                            \/ \E d \in DocIds : ReapOrphan(p, i, d)
                        \/ Run(p) \/ Serve(p) \/ Abort(p) \/ Collect(p)
    \/ Source \/ Service \/ Seeder \/ Crash \/ ResetSweepCache \/ Aside

LEMMA StepsKept ==
    ASSUME MirrorConditions, Mirroring, OneCallPerItem, MirrorSteps
    PROVE  Kept
<1>1. CASE Crash \/ ResetSweepCache \/ Aside
  <2>1. Quiet /\ UNCHANGED cursor
    BY <1>1 DEF Crash, ResetSweepCache, Aside, Quiet, srcVars, ragVars
  <2>2. Blank(AnItem, NoToken).pc = "idle"
    BY DEF Blank
  <2>3. \A q \in Tasks : task'[q] = task[q] \/ task'[q] = Blank(AnItem, NoToken)
    BY <1>1, AsideCalls DEF Crash, ResetSweepCache
  <2>4. QED
    BY <2>1, <2>2, <2>3, QuietStill
<1>2. CASE Source
  BY <1>2, SourceKept DEF Source
<1>3. CASE Service \/ Seeder
  BY <1>3, ServiceKept, SeedKept DEF Seeder
<1>4. ASSUME NEW p \in Tasks,
             \/ \E i \in Primary, tok \in Versions : PushRef(p, i, tok)
             \/ \E i \in Items : \/ DeleteByRef(p, i)
                                 \/ \E d \in DocIds : ReapOrphan(p, i, d)
             \/ Run(p) \/ Serve(p) \/ Abort(p) \/ Collect(p)
      PROVE  Kept
  BY <1>4, PushRefKept, DeleteCallKept, RunKept, ServeKept, CallEndsKept
<1>5. QED
  BY <1>1, <1>2, <1>3, <1>4 DEF MirrorSteps

LEMMA SyncIsMirrorStep ==
    ASSUME Base, QueueInv, [SyncNext]_allVars
    PROVE  MirrorSteps
<1>1. /\ waiting \subseteq [item : Items, token : Versions]
      /\ strays \subseteq [item : Items, token : Versions]
      /\ Primary \subseteq Items /\ Slots \subseteq Tasks /\ Reaper \in Tasks
      /\ version \in [Items -> Versions]
  BY PrimaryAssumption, WorkersAssumption DEF Base, TypedSync, RefsOK, TypeInv, SourceOK
<1>2. CASE Sweep
  <2>1. ASSUME NEW p \in Slots, StartItem(p)
        PROVE  MirrorSteps
    <3>1. PICK r \in waiting \cup strays : PushRef(p, r.item, r.token)
      BY <2>1 DEF StartItem
    <3>2. r.item \in Primary /\ r.token \in Versions /\ p \in Tasks
      BY <1>1, <3>1 DEF QueueInv
    <3>3. QED
      BY <3>1, <3>2 DEF MirrorSteps
  <2>2. ASSUME NEW p \in Slots, EndItem(p)
        PROVE  MirrorSteps
    BY <1>1, <2>2 DEF EndItem, MirrorSteps
  <2>3. ASSUME NEW d \in DocIds, Reap(d)
        PROVE  MirrorSteps
    <3>1. ReapOrphan(Reaper, docs[d].key, d)
      BY <2>3 DEF Reap
    <3>2. docs[d].key \in Items
      BY <2>3 DEF Reap, Base, GoneInv, SweepGone, DocsHome
    <3>3. QED
      BY <1>1, <3>1, <3>2 DEF MirrorSteps
  <2>4. CASE StartSweep
    BY <2>4 DEF StartSweep, MirrorSteps
  <2>5. CASE \/ StartReaping \/ EndLibrary
             \/ \E i \in Items : Enumerate(i)
             \/ \E l \in Libraries : ListLibrary(l)
    <3>1. UNCHANGED vars
      BY <2>5 DEF StartReaping, EndLibrary, Enumerate, ListLibrary
    <3>2. QED
      BY <3>1 DEF vars, srcVars, ragVars, Aside, MirrorSteps
  <2>6. QED
    BY <1>2, <2>1, <2>2, <2>3, <2>4, <2>5 DEF Sweep, SweepGoesOn
<1>3. CASE EnumerationFails \/ \E l \in Libraries : SkipLibrary(l)
  BY <1>3 DEF EnumerationFails, SkipLibrary, Aside, MirrorSteps
<1>4. CASE ReapingFails \/ CancelSweep
  <2>1. SweepCalls \in SUBSET Tasks
    BY <1>1 DEF SweepCalls, Running
  <2>2. QED
    BY <1>1, <1>4, <2>1 DEF ReapingFails, CancelSweep, Aside, MirrorSteps
<1>5. ASSUME NEW p \in Tasks, Proceed(p) \/ Abort(p)
      PROVE  MirrorSteps
  BY <1>5 DEF Proceed, MirrorSteps
<1>6. ASSUME NEW p \in Tasks, Hook(p)
      PROVE  MirrorSteps
  <2>1. PICK i \in Primary : (\E tok \in Versions : PushRef(p, i, tok)) \/ DeleteByRef(p, i)
    BY <1>6 DEF Hook
  <2>2. i \in Items
    BY <1>1
  <2>3. QED
    BY <2>1, <2>2 DEF MirrorSteps
<1>7. CASE Source \/ Service \/ Seeder \/ Restart
  BY <1>7 DEF Restart, MirrorSteps
<1>8. CASE UNCHANGED allVars
  BY <1>8 DEF allVars, vars, srcVars, ragVars, Aside, MirrorSteps
<1>9. QED
  BY <1>2, <1>3, <1>4, <1>5, <1>6, <1>7, <1>8 DEF SyncNext, SweepFails, Beside

LEMMA QueueStep ==
    ASSUME Base, QueueInv, [SyncNext]_allVars
    PROVE  QueueInv'
<1>1. unlisted \subseteq Primary
  BY DEF Base, TypedSync, SweepOK
<1>2. ASSUME NEW i \in Items, Enumerate(i)
      PROVE  QueueInv'
  <2>1. i \in Primary
    BY <1>1, <1>2 DEF Enumerate
  <2>2. \A j : [item |-> j, token |-> version[j]].item = j
    OBVIOUS
  <2>3. QED
    BY <1>2, <2>1, <2>2 DEF Enumerate, QueueInv
<1>3. ASSUME NEW p \in Slots, StartItem(p)
      PROVE  QueueInv'
  BY <1>3 DEF StartItem, QueueInv
<1>4. CASE EnumerationFails \/ CancelSweep \/ Restart
  BY <1>4 DEF EnumerationFails, CancelSweep, Restart, QueueInv
<1>5. CASE UNCHANGED <<waiting, strays>>
  BY <1>5 DEF QueueInv
<1>6. \/ \E i \in Items : Enumerate(i)
      \/ \E p \in Slots : StartItem(p)
      \/ EnumerationFails \/ CancelSweep \/ Restart
      \/ UNCHANGED <<waiting, strays>>
  <2>1. CASE Sweep
    BY <2>1 DEF Sweep, SweepGoesOn, StartSweep, StartReaping, EndLibrary, ListLibrary, Reap, EndItem
  <2>2. CASE ReapingFails \/ \E l \in Libraries : SkipLibrary(l)
    BY <2>2 DEF ReapingFails, SkipLibrary
  <2>3. CASE UNCHANGED sweepVars
    BY <2>3 DEF sweepVars
  <2>4. CASE \E p \in Tasks : Proceed(p) \/ Hook(p) \/ (Abort(p) /\ UNCHANGED sweepVars)
    BY <2>3, <2>4 DEF Proceed, Hook
  <2>5. CASE UNCHANGED allVars
    BY <2>5 DEF allVars, sweepVars
  <2>6. QED
    BY <2>1, <2>2, <2>3, <2>4, <2>5 DEF SyncNext, SweepFails, Beside
<1>7. QED
  BY <1>2, <1>3, <1>4, <1>5, <1>6

-----------------------------------------------------------------------------
(* The invariant.                                                          *)

LEMMA MirrorInit ==
    ASSUME MirrorConditions, SyncInit
    PROVE  MirrorInv
<1>1. Base
  BY TypedInit, OwnInit, GoneInit DEF Base, SyncInit, MirrorConditions
<1>2. /\ \A d \in DocIds : docs[d].state = "free" /\ \A k \in OpKeys : op[d][k] = "none"
      /\ cursor = [i \in Items |-> NoRow]
      /\ \A p \in Tasks : task[p].pc = "idle"
      /\ waiting = {} /\ strays = {}
      /\ RevisionKeys \subseteq OpKeys /\ Deletion \in OpKeys
  <2>1. \A p \in Tasks : task[p].pc = "idle"
    <3>1. Blank(AnItem, NoToken).pc = "idle"
      BY DEF Blank
    <3>2. QED
      BY <3>1 DEF SyncInit, Init
  <2>2. QED
    BY <2>1 DEF SyncInit, Init, IronRagInit, FreeDoc, CursorInit, OpKeys
<1>3. DocInv
  BY <1>2 DEF DocInv, OneActive, Behind, AtMost, ActiveOf, DeletedGone, OneInFlight, Forward
<1>4. RowInv
  BY <1>2 DEF RowInv, Has
<1>5. TasksSound
  <2>1. ASSUME NEW p \in Tasks
        PROVE  Sound(cursor, docs, op, version, task[p])
    <3> DEFINE t == task[p]
    <3>1. t.pc \in {"idle", "dlookup", "delete", "dpoll"}
      BY <1>2
    <3> HIDE DEF t
    <3>2. Sound(cursor, docs, op, version, t)
      BY <3>1, IdleSound
    <3>3. QED
      BY <3>2 DEF t
  <2>2. QED
    BY <2>1 DEF TasksSound
<1>6. QED
  BY <1>1, <1>2, <1>3, <1>4, <1>5 DEF MirrorInv, Mirroring, QueueInv

LEMMA BaseStep ==
    ASSUME MirrorConditions, Base, [SyncNext]_allVars
    PROVE  Base'
<1>1. TypedSync' /\ GoneInv'
  BY TypedStep, GoneStep DEF Base, MirrorConditions
<1>2. Next \/ Aside
  BY SyncStepIsStep DEF Base, TypedSync
<1>3. OwnInv'
  BY <1>2, OwnStep, AsideKeeps DEF Base, TypedSync, MirrorConditions
<1>4. QED
  BY <1>1, <1>3 DEF Base

LEMMA MirrorStep ==
    ASSUME MirrorConditions, MirrorInv, OneCallPerItem, [SyncNext]_allVars
    PROVE  MirrorInv'
<1>1. Base' /\ QueueInv'
  BY BaseStep, QueueStep DEF MirrorInv, Mirroring
<1>2. Kept
  BY SyncIsMirrorStep, StepsKept DEF MirrorInv, Mirroring
<1>3. QED
  BY <1>1, <1>2 DEF Kept, MirrorInv, Mirroring

LEMMA MirrorInvariant ==
    ASSUME MirrorConditions
    PROVE  SyncSpec /\ []OneCallPerItem => []MirrorInv
<1>1. SyncInit => MirrorInv
  BY MirrorInit
<1>2. MirrorInv /\ OneCallPerItem /\ [SyncNext]_allVars => MirrorInv'
  BY MirrorStep
<1>3. QED
  BY <1>1, <1>2, PTL DEF SyncSpec

-----------------------------------------------------------------------------
(* What follows from it.                                                   *)

LEMMA RowsAreFresh ==
    ASSUME MirrorConditions, Mirroring
    PROVE  FreshCursor
<1>1. ASSUME NEW i \in Items, Has(i), Active(cursor[i].doc)
      PROVE  docs[cursor[i].doc].content \in AtLeast(i, cursor[i].token)
  <2> DEFINE d == cursor[i].doc
  <2>1. d \in DocIds /\ docs[d].state = "active" /\ docs[d].key = i
    BY <1>1 DEF Active, Mirroring, Base, OwnInv, LocalOwned, CursorOwned, Mine
  <2>2. From(i, docs[d].content, cursor[i].token)
    BY <1>1, <2>1 DEF Mirroring, RowInv, GoodRow, AtLeastOf, ActiveOf
  <2>3. PICK w \in Versions : cursor[i].token <= w /\ docs[d].content = Bytes[i][w]
    BY <2>2 DEF From
  <2>4. cursor[i].token \in Nat
    BY <1>1, DocFacts DEF Mirroring, Has, Row
  <2>5. w \in cursor[i].token .. MaxVersion
    BY <2>3, <2>4, VersionAssumption DEF Versions
  <2>6. QED
    BY <2>3, <2>5 DEF AtLeast
<1>2. QED
  BY <1>1 DEF FreshCursor

\* A cursor row is never ahead of the document it names, for any number of
\* items, dependents, slots, documents, versions and faults: whatever happens
\* between the awaits of a push - edits, aborted calls, failed and superseded
\* operations, restarts, the seeder - what it records the service has.  Items
\* keep what they are told apart by, do not return, and are replaced when they
\* change; and no two calls are about one item (orchestrator.py: push_item and
\* _revise write the row after the operation they waited for).
THEOREM FreshRows ==
    ASSUME MirrorConditions
    PROVE  SyncSpec /\ []OneCallPerItem => []FreshCursor
<1>1. MirrorInv => FreshCursor
  BY RowsAreFresh DEF MirrorInv
<1>2. SyncSpec /\ []OneCallPerItem => []MirrorInv
  BY MirrorInvariant
<1>3. QED
  BY <1>1, <1>2, PTL

\* A deferred push is tried again, under the same conditions: no row says that
\* the reference of a call that deferred was handled, although the call wrote
\* that row before it came to the dependent it deferred (orchestrator.py:
\* push_ref restores parent_cursor_before_push).
THEOREM DeferralIsKept ==
    ASSUME MirrorConditions
    PROVE  SyncSpec /\ []OneCallPerItem => []DeferredIsRetried
<1>1. MirrorInv => DeferredIsRetried
  BY DEF MirrorInv, Mirroring, TasksSound, Sound, NotYet, DeferredIsRetried, TokenUnchanged, Has
<1>2. SyncSpec /\ []OneCallPerItem => []MirrorInv
  BY MirrorInvariant
<1>3. QED
  BY <1>1, <1>2, PTL

-----------------------------------------------------------------------------
(* The refinement.                                                         *)

\* What Mirror sees of a state, in the terms of the invariant.
Viewed ==
    \A i \in Items :
        /\ Shown(i) \in 0 .. version[i] /\ Claimed(i) \in 0 .. Shown(i)
        /\ ActiveOf(docs, i) = {} => Shown(i) = 0
        /\ \A d \in ActiveOf(docs, i), v \in Versions :
              docs[d].content = Bytes[i][v] => Shown(i) = v

\* An active document has the bytes of a version.
LEMMA DocVersion ==
    ASSUME DocInv, NEW i \in Items, NEW d \in ActiveOf(docs, i)
    PROVE  \E v \in Versions : v <= version[i] /\ docs[d].content = Bytes[i][v]
  BY DEF DocInv, Behind, AtMost, Until

LEMMA ViewFacts ==
    ASSUME MirrorConditions, Mirroring
    PROVE  Viewed
<1>1. /\ version \in [Items -> Versions] /\ cursor \in [Items -> Row \cup {NoRow}]
      /\ Versions \subseteq Nat /\ Tokens \subseteq Nat /\ DistinctVersions
  BY DocFacts DEF Mirroring, MirrorConditions
<1>2. ASSUME NEW i \in Items
      PROVE  /\ ActiveOf(docs, i) = {} => Shown(i) = 0
             /\ \A d \in ActiveOf(docs, i), v \in Versions :
                   docs[d].content = Bytes[i][v] => Shown(i) = v
  <2> DEFINE held == {v \in Versions : \E l \in Libraries : \E d \in Matches(l, i) :
                         docs[d].content = Bytes[i][v]}
  <2>1. Shown(i) = IF held = {} THEN 0 ELSE CHOOSE v \in held : \A w \in held : v <= w
    BY DEF Shown
  <2>2. \A l : Matches(l, i) \subseteq ActiveOf(docs, i)
    BY DEF Matches, ActiveOf, Active
  <2>3. \A d \in ActiveOf(docs, i) : d \in Matches(Home, i)
    BY DocFacts DEF Matches, ActiveOf, Active, Mirroring
  <2>4. Home \in Libraries
    BY HomeFacts DEF MirrorConditions
  <2>5. ASSUME ActiveOf(docs, i) = {}
        PROVE  Shown(i) = 0
    <3>1. held = {}
      BY <2>2, <2>5
    <3>2. QED
      BY <2>1, <3>1
  <2>6. ASSUME NEW d \in ActiveOf(docs, i), NEW v \in Versions, docs[d].content = Bytes[i][v]
        PROVE  Shown(i) = v
    <3>1. ActiveOf(docs, i) = {d}
      BY <2>6 DEF Mirroring, DocInv, OneActive, ActiveOf
    <3>2. v \in held
      BY <2>3, <2>4, <2>6
    <3>3. \A w \in held : w = v
      BY <1>1, <2>2, <2>6, <3>1 DEF DistinctVersions
    <3> HIDE DEF held
    <3>4. held = {v}
      BY <3>2, <3>3
    <3>5. v <= v
      BY <1>1
    <3>6. QED
      BY <2>1, <3>4, <3>5
  <2>7. QED
    BY <2>5, <2>6
<1>3. ASSUME NEW i \in Items
      PROVE  Shown(i) \in 0 .. version[i] /\ Claimed(i) \in 0 .. Shown(i)
  <2>1. version[i] \in Nat
    BY <1>1
  <2>2. Shown(i) \in 0 .. version[i]
    <3>1. CASE ActiveOf(docs, i) = {}
      BY <1>2, <2>1, <3>1
    <3>2. ASSUME NEW d \in ActiveOf(docs, i)
          PROVE  Shown(i) \in 0 .. version[i]
      <4>1. PICK v \in Versions : v <= version[i] /\ docs[d].content = Bytes[i][v]
        BY DocVersion DEF Mirroring
      <4>2. Shown(i) = v /\ v \in Nat
        BY <1>1, <1>2, <4>1
      <4>3. QED
        BY <2>1, <4>1, <4>2
    <3>3. QED
      BY <3>1, <3>2
  <2>3. CASE Has(i) /\ Active(cursor[i].doc)
    <3> DEFINE d == cursor[i].doc
    <3>1. d \in ActiveOf(docs, i)
      BY <2>3 DEF Active, ActiveOf, Mirroring, Base, OwnInv, LocalOwned, CursorOwned, Mine
    <3>2. From(i, docs[d].content, cursor[i].token)
      BY <2>3, <3>1 DEF Mirroring, RowInv, GoodRow, AtLeastOf
    <3>3. PICK w \in Versions : cursor[i].token <= w /\ docs[d].content = Bytes[i][w]
      BY <3>2 DEF From
    <3>4. Shown(i) = w /\ w \in Nat
      BY <1>1, <1>2, <3>1, <3>3
    <3>5. Claimed(i) = cursor[i].token /\ cursor[i].token \in Nat
      BY <1>1, <2>3 DEF Claimed, Has, Row
    <3>6. QED
      BY <2>2, <3>3, <3>4, <3>5
  <2>4. CASE ~(Has(i) /\ Active(cursor[i].doc))
    <3>1. Claimed(i) = 0
      BY <2>4 DEF Claimed, NoToken
    <3>2. QED
      BY <2>1, <2>2, <3>1
  <2>5. QED
    BY <2>2, <2>3, <2>4
<1>4. QED
  BY <1>2, <1>3 DEF Viewed

LEMMA SameShown ==
    ASSUME DocInv, Viewed, Viewed', NEW i \in Items, ActiveOf(docs', i) = ActiveOf(docs, i),
           \A d \in ActiveOf(docs, i) : docs'[d].content = docs[d].content
    PROVE  Shown(i)' = Shown(i)
<1>1. CASE ActiveOf(docs, i) = {}
  BY <1>1 DEF Viewed
<1>2. ASSUME NEW d \in ActiveOf(docs, i)
      PROVE  Shown(i)' = Shown(i)
  <2>1. PICK v \in Versions : docs[d].content = Bytes[i][v]
    BY DocVersion
  <2>2. Shown(i) = v
    BY <2>1 DEF Viewed
  <2>3. Shown(i)' = v
    BY <2>1 DEF Viewed
  <2>4. QED
    BY <2>2, <2>3
<1>3. QED
  BY <1>1, <1>2

\* A row changes, or none does: somebody claims something, and no more than
\* there is.
LEMMA RowClaims ==
    ASSUME DocInv, Viewed, Viewed', UNCHANGED <<docs, version, live>>,
           \/ UNCHANGED cursor
           \/ \E i \in Items : \A j \in Items : j # i => cursor'[j] = cursor[j]
    PROVE  [M!Next]_(M!vars)
<1>1. \A i \in Items : Shown(i)' = Shown(i)
  BY SameShown DEF ActiveOf
<1>2. [i \in Items |-> Shown(i)]' = [i \in Items |-> Shown(i)]
  BY <1>1
<1>3. \A j \in Items : cursor'[j] = cursor[j] => Claimed(j)' = Claimed(j)
  BY DEF Claimed, Has, Active
<1>4. CASE UNCHANGED cursor
  <2>1. \A j \in Items : Claimed(j)' = Claimed(j)
    BY <1>3, <1>4
  <2>2. [i \in Items |-> Claimed(i)]' = [i \in Items |-> Claimed(i)]
    BY <2>1
  <2>3. QED
    BY <1>2, <2>2 DEF M!vars
<1>5. ASSUME NEW i \in Items, \A j \in Items : j # i => cursor'[j] = cursor[j]
      PROVE  M!Claim(i)
  <2>1. \A j \in Items : j # i => Claimed(j)' = Claimed(j)
    BY <1>3, <1>5
  <2>2. Claimed(i)' \in 0 .. Shown(i)
    BY <1>1 DEF Viewed
  <2>3. [j \in Items |-> Claimed(j)]' = [[j \in Items |-> Claimed(j)] EXCEPT ![i] = Claimed(i)']
    BY <2>1
  <2>4. QED
    BY <1>2, <2>2, <2>3 DEF M!Claim
<1>6. QED
  BY <1>4, <1>5 DEF M!Next

\* The documents of one item change, and what it shows does not go back.
LEMMA DocPublishes ==
    ASSUME Viewed, Viewed', UNCHANGED <<cursor, version, live>>, NEW i \in Items,
           version[i] \in Nat,
           \A j \in Items : j # i => Shown(j)' = Shown(j),
           \A j \in Items : Claimed(j)' = Claimed(j),
           Shown(i) <= Shown(i)'
    PROVE  [M!Next]_(M!vars)
<1>1. [j \in Items |-> Claimed(j)]' = [j \in Items |-> Claimed(j)]
  OBVIOUS
<1>2. CASE Shown(i)' = Shown(i)
  <2>1. [j \in Items |-> Shown(j)]' = [j \in Items |-> Shown(j)]
    BY <1>2
  <2>2. QED
    BY <1>1, <2>1 DEF M!vars
<1>3. CASE Shown(i)' # Shown(i)
  <2>1. Shown(i) \in 0 .. version[i] /\ Shown(i)' \in 0 .. version[i]
    BY DEF Viewed
  <2>2. Shown(i)' \in Shown(i) + 1 .. version[i]
    BY <1>3, <2>1
  <2>3. [j \in Items |-> Shown(j)]' = [[j \in Items |-> Shown(j)] EXCEPT ![i] = Shown(i)']
    OBVIOUS
  <2>4. M!Publish(i)
    BY <1>1, <2>2, <2>3 DEF M!Publish
  <2>5. QED
    BY <2>4 DEF M!Next
<1>4. QED
  BY <1>2, <1>3

\* The steps of a call change a row at most.
LEMMA RunClaims ==
    ASSUME TypeInv, NEW p \in Tasks, Run(p)
    PROVE  /\ UNCHANGED <<docs, version, live>>
           /\ \/ UNCHANGED cursor
              \/ \E i \in Items : \A j \in Items : j # i => cursor'[j] = cursor[j]
<1> DEFINE One == \E i \in Items : \A j \in Items : j # i => cursor'[j] = cursor[j]
           t == task[p]
<1>1. /\ cursor \in [Items -> Row \cup {NoRow}] /\ t.ref \in Items /\ Subject(t) \in Items
  BY TaskFacts, SubjectType DEF TypeInv, Local, CursorTypeOK
<1>2. ASSUME NEW i \in Items, NEW row, cursor' = [cursor EXCEPT ![i] = row]
      PROVE  One
  BY <1>1, <1>2
<1>3. /\ \A tok, d, l : Upsert(Subject(t), tok, d, l) => One
      /\ Delete(Subject(t)) \/ Delete(t.ref) => One
      /\ \A row : Restore(t.ref, row) => One
  BY <1>1, <1>2 DEF Upsert, Delete, Restore
<1>4. ASSUME NEW i \in Items, NEW d, NEW l, Backfill(i, d, l)
      PROVE  UNCHANGED cursor \/ One
  <2>1. CASE Has(i)
    <3>1. cursor' = [cursor EXCEPT ![i].doc = d, ![i].lib = l]
      BY <1>4, <2>1 DEF Backfill
    <3>2. \A j \in Items : j # i => cursor'[j] = cursor[j]
      BY <1>1, <3>1
    <3>3. QED
      BY <3>2
  <2>2. QED
    BY <1>4, <2>1 DEF Backfill
<1>5. (\A d, a : Handled(p, d, a) => One) /\ (Defer(p) => UNCHANGED cursor \/ One)
  <2> HIDE DEF One
  <2>1. QED
    BY <1>3 DEF Handled, Defer
<1> HIDE DEF One
<1>6. CASE ResumeLookup(p) \/ ResumeFetch(p)
  BY <1>1, <1>4, <1>6 DEF ResumeLookup, ResumeFetch, Resumes, srcVars, ragVars, One
<1>7. CASE PushItem(p) \/ ResumeFind(p) \/ ResumeCreate(p)
  BY <1>1, <1>4, <1>5, <1>7 DEF PushItem, ResumeFind, ResumeCreate, PushChanged, Raise,
     Resumes, srcVars, ragVars, One
<1>8. CASE ResumeRevise(p) \/ Poll(p) \/ PollTimeout(p)
  BY <1>3, <1>5, <1>8 DEF ResumeRevise, Poll, PollTimeout, Raise, Resumes, srcVars, ragVars, One
<1>9. CASE ResumeDeleteLookup(p) \/ ResumeDelete(p) \/ DeletePoll(p)
  BY <1>3, <1>9 DEF ResumeDeleteLookup, ResumeDelete, DeletePoll, Reaped, Raise,
     Resumes, srcVars, ragVars, One
<1>10. QED
  BY <1>6, <1>7, <1>8, <1>9 DEF Run, One

\* A document that no row names is made.
LEMMA CreatePublishes ==
    ASSUME MirrorConditions, Mirroring, Viewed, Viewed', NEW p \in Tasks, ServeCreate(p)
    PROVE  [M!Next]_(M!vars)
<1>0. PICK t, i, c : t = task[p] /\ i = Subject(t) /\ c = Head(t.todo).payload
  OBVIOUS
<1>1. /\ t.pc = "create" /\ t.pc \in PushPC /\ UNCHANGED <<version, live, cursor>>
  BY <1>0 DEF ServeCreate, Waits, srcVars, PushPC
<1>2. /\ t \in Task /\ t.todo # <<>> /\ i \in Items /\ t.lib = Home /\ t.answer = "none"
      /\ ActiveOf(docs, i) = {}
  BY <1>0, <1>1, PushFacts DEF WellFormed, Placed, ServeCreate, Waits
<1>3. PICK v \in Versions : c = Bytes[i][v] /\ v <= version[i]
  BY <1>0, <1>1, <1>2, PushedVersion
<1>4. Duplicates(Home, i, c) = {}
  BY <1>2, <1>3, NoDuplicates DEF MirrorConditions, Mirroring
<1>5. PICK d \in DocIds \cup {NoDoc} : AddDocument(Home, i, c, d)
  BY <1>0, <1>2, <1>4 DEF ServeCreate, RefuseDuplicate
<1>6. d \in DocIds /\ docs[d].state = "free"
  <2>1. d \in Free
    BY <1>5 DEF AddDocument
  <2>2. QED
    BY <2>1 DEF Free
<1>7. \A e \in DocIds : e # d => docs'[e] = docs[e]
  BY <1>5, <1>6, DocFacts DEF AddDocument, Mirroring
<1>8. docs'[d].key = i
  <2> DEFINE new == [state |-> "active", lib |-> Home, key |-> i, content |-> c]
  <2>1. new.key = i /\ docs' = [docs EXCEPT ![d] = new]
    BY <1>5 DEF AddDocument
  <2> HIDE DEF new
  <2>2. QED
    BY <1>6, <2>1, DocFacts DEF Mirroring
<1>9. \A j \in Items : j # i => Shown(j)' = Shown(j)
  <2>1. ASSUME NEW j \in Items, j # i
        PROVE  /\ ActiveOf(docs', j) = ActiveOf(docs, j)
               /\ \A e \in ActiveOf(docs, j) : docs'[e].content = docs[e].content
    BY <1>6, <1>7, <1>8, <2>1 DEF ActiveOf
  <2>2. QED
    BY <2>1, SameShown DEF Mirroring
<1>10. \A j \in Items : Claimed(j)' = Claimed(j)
  <2>1. ASSUME NEW j \in Items, Has(j)
        PROVE  cursor[j].doc # d
    <3>1. docs[d].key = NoDoc /\ j # NoDoc
      BY <1>6, DocFacts, NoDocAssumption DEF Mirroring
    <3>2. Mine(docs, j, cursor[j].doc)
      BY <2>1 DEF Mirroring, Base, OwnInv, LocalOwned, CursorOwned
    <3>3. QED
      BY <1>6, <3>1, <3>2 DEF Mine
  <2>2. \A j \in Items : Has(j)' = Has(j) /\ cursor'[j] = cursor[j]
    BY <1>1 DEF Has
  <2>3. \A j \in Items : Has(j) => Active(cursor[j].doc)' = Active(cursor[j].doc)
    BY <1>1, <1>7, <2>1 DEF Active
  <2>4. QED
    BY <2>2, <2>3 DEF Claimed
<1>11. Shown(i) <= Shown(i)'
  <2>1. Shown(i) = 0 /\ Shown(i)' \in 0 .. version'[i] /\ version[i] \in Nat
    BY <1>2, DocFacts DEF Viewed, Mirroring
  <2>2. QED
    BY <1>1, <2>1
<1>12. QED
  BY <1>1, <1>2, <1>9, <1>10, <1>11, DocFacts, DocPublishes DEF Mirroring

\* A revision is applied: its document goes forward.
LEMMA RevisionPublishes ==
    ASSUME MirrorConditions, Mirroring, Viewed, Viewed', NEW d \in DocIds,
           NEW k \in RevisionKeys, Settle(d, k)
    PROVE  [M!Next]_(M!vars)
<1>1. /\ k \in OpKeys /\ k # Deletion /\ UNCHANGED <<version, live, cursor>>
      /\ op[d][k] = "processing" /\ docs' = [docs EXCEPT ![d].content = k[2]]
  BY DocFacts DEF Settle, Apply, srcVars, Mirroring
<1>2. PICK i \in Items : docs[d].state = "active" /\ docs[d].key = i /\ d \in ActiveOf(docs, i)
  BY <1>1, DocFacts DEF Mirroring, DocInv, OneInFlight, ActiveOf
<1>3. \A e \in DocIds :
         /\ docs'[e].state = docs[e].state /\ docs'[e].key = docs[e].key
         /\ docs'[e].content = IF e = d THEN k[2] ELSE docs[e].content
  <2>1. docs' = [docs EXCEPT ![d] = [docs[d] EXCEPT !.content = k[2]]]
    BY <1>1
  <2>2. \A r \in Document : LET s == [r EXCEPT !.content = k[2]]
                            IN  s.state = r.state /\ s.key = r.key /\ s.content = k[2]
    BY DEF Document
  <2>3. QED
    BY <2>1, <2>2, DocFacts DEF Mirroring
<1>4. \A j \in Items : ActiveOf(docs', j) = ActiveOf(docs, j)
  BY <1>3 DEF ActiveOf
<1>5. \A j \in Items : j # i => Shown(j)' = Shown(j)
  <2>1. ASSUME NEW j \in Items, j # i
        PROVE  \A e \in ActiveOf(docs, j) : docs'[e].content = docs[e].content
    BY <1>2, <1>3, <2>1 DEF ActiveOf
  <2>2. QED
    BY <1>4, <2>1, SameShown DEF Mirroring
<1>6. \A j \in Items : Claimed(j)' = Claimed(j)
  BY <1>1, <1>3 DEF Claimed, Has, Active
<1>7. Shown(i) <= Shown(i)'
  <2>1. Older(i, docs[d].content, k[2])
    BY <1>1, <1>2 DEF Mirroring, DocInv, Forward
  <2>2. PICK v, w \in Versions : v <= w /\ docs[d].content = Bytes[i][v] /\ k[2] = Bytes[i][w]
    BY <2>1 DEF Older
  <2>3. Shown(i) = v
    BY <1>2, <2>2 DEF Viewed
  <2>4. Shown(i)' = w
    BY <1>2, <1>3, <1>4, <2>2 DEF Viewed
  <2>5. QED
    BY <2>2, <2>3, <2>4
<1>8. QED
  BY <1>1, <1>2, <1>5, <1>6, <1>7, DocFacts, DocPublishes DEF Mirroring

\* A deletion is applied: of an item that has left the source.
LEMMA DeletionWithdraws ==
    ASSUME MirrorConditions, Mirroring, Viewed, Viewed', NEW d \in DocIds, Settle(d, Deletion)
    PROVE  [M!Next]_(M!vars)
<1>1. /\ UNCHANGED <<version, live, cursor>> /\ op[d][Deletion] = "processing" /\ Bury(d)
      /\ RagOK
  BY DEF Settle, Apply, srcVars, Mirroring, Base, TypedSync, TypeInv, RagOK
<1>2. PICK i \in Items : docs[d].state = "active" /\ docs[d].key = i /\ Gone(i)
  BY <1>1, DocFacts DEF Mirroring, DocInv, OneInFlight, DeletedGone
<1>3. \A e \in DocIds :
         /\ docs'[e].key = docs[e].key
         /\ docs'[e].state = IF e = d THEN "deleted" ELSE docs[e].state
         /\ docs'[e].content = IF e = d THEN NoPayload ELSE docs[e].content
  BY <1>1, BuryType
<1>4. \A j \in Items : j # i => Shown(j)' = Shown(j)
  <2>1. ASSUME NEW j \in Items, j # i
        PROVE  /\ ActiveOf(docs', j) = ActiveOf(docs, j)
               /\ \A e \in ActiveOf(docs, j) : docs'[e].content = docs[e].content
    BY <1>2, <1>3, <2>1 DEF ActiveOf
  <2>2. QED
    BY <2>1, SameShown DEF Mirroring
<1>5. Shown(i)' = 0
  <2>1. ActiveOf(docs', i) = {}
    BY <1>2, <1>3 DEF ActiveOf, Mirroring, DocInv, OneActive
  <2>2. QED
    BY <1>2, <2>1 DEF Viewed
<1>6. Claimed(i)' = 0
  BY <1>2, <1>5 DEF Viewed
<1>7. \A j \in Items : j # i => Claimed(j)' = Claimed(j)
  <2>1. ASSUME NEW j \in Items, j # i, Has(j)
        PROVE  cursor[j].doc # d
    <3>1. Mine(docs, j, cursor[j].doc)
      BY <2>1 DEF Mirroring, Base, OwnInv, LocalOwned, CursorOwned
    <3>2. QED
      BY <1>2, <2>1, <3>1 DEF Mine
  <2>2. \A j \in Items : Has(j)' = Has(j) /\ cursor'[j] = cursor[j]
    BY <1>1 DEF Has
  <2>3. \A j \in Items : j # i /\ Has(j) => Active(cursor[j].doc)' = Active(cursor[j].doc)
    BY <1>1, <1>3, <2>1 DEF Active
  <2>4. QED
    BY <2>2, <2>3 DEF Claimed
<1>8. [j \in Items |-> Shown(j)]' = [[j \in Items |-> Shown(j)] EXCEPT ![i] = 0]
  BY <1>4, <1>5
<1>9. [j \in Items |-> Claimed(j)]' = [[j \in Items |-> Claimed(j)] EXCEPT ![i] = 0]
  BY <1>6, <1>7
<1>10. M!Withdraw(i)
  BY <1>1, <1>2, <1>8, <1>9 DEF M!Withdraw, Gone
<1>11. QED
  BY <1>2, <1>10 DEF M!Next

\* What neither documents nor rows notice.
LEMMA SourceMoves ==
    ASSUME MirrorConditions, Mirroring, Viewed, Viewed', NEW i \in Items,
           Edit(i) \/ Vanish(i) \/ Reroute(i)
    PROVE  [M!Next]_(M!vars)
<1>1. UNCHANGED <<docs, cursor>> /\ live \in [Items -> BOOLEAN]
  BY DEF Edit, Vanish, Reroute, ragVars, Mirroring, Base, TypedSync, TypeInv, SourceOK
<1>2. \A j \in Items : Shown(j)' = Shown(j) /\ Claimed(j)' = Claimed(j)
  <2>1. \A j \in Items : Shown(j)' = Shown(j)
    BY <1>1, SameShown DEF Mirroring
  <2>2. \A j \in Items : Claimed(j)' = Claimed(j)
    BY <1>1 DEF Claimed, Has, Active
  <2>3. QED
    BY <2>1, <2>2
<1>3. /\ [j \in Items |-> Shown(j)]' = [j \in Items |-> Shown(j)]
      /\ [j \in Items |-> Claimed(j)]' = [j \in Items |-> Claimed(j)]
  BY <1>2
<1>4. CASE Edit(i)
  <2>1. M!Edit(i)
    BY <1>3, <1>4 DEF Edit, M!Edit
  <2>2. QED
    BY <2>1 DEF M!Next
<1>5. CASE Vanish(i)
  <2>1. live[i] /\ live' = [live EXCEPT ![i] = FALSE] /\ UNCHANGED version
    BY <1>1, <1>5 DEF Vanish, MirrorConditions
  <2>2. M!Leave(i)
    BY <1>3, <2>1 DEF M!Leave
  <2>3. QED
    BY <2>2 DEF M!Next
<1>6. CASE Reroute(i)
  BY <1>3, <1>6 DEF Reroute, M!vars
<1>7. QED
  BY <1>4, <1>5, <1>6

LEMMA ServeMirrored ==
    ASSUME MirrorConditions, Mirroring, Viewed, Viewed', NEW p \in Tasks, Serve(p)
    PROVE  [M!Next]_(M!vars)
<1>1. CASE ServeCreate(p)
  BY <1>1, CreatePublishes
<1>2. CASE ServeFind(p) \/ ServeFetch(p) \/ ServeRevise(p) \/ ServeDelete(p)
  <2>1. UNCHANGED <<docs, version, live, cursor>>
    BY <1>2 DEF ServeFind, ServeFetch, ServeRevise, ServeDelete, Waits, Reply, ragVars, srcVars,
       RefuseGone, RefuseBusy, Dedupe, Admit
  <2>2. QED
    BY <2>1, RowClaims DEF Mirroring
<1>3. QED
  BY <1>1, <1>2 DEF Serve

LEMMA ServiceMirrored ==
    ASSUME MirrorConditions, Mirroring, Viewed, Viewed', Service
    PROVE  [M!Next]_(M!vars)
<1>1. PICK d \in DocIds : \/ Remove(d)
                          \/ \E k \in OpKeys : Settle(d, k) \/ Misfire(d, k)
  BY DEF Service
<1>2. ~Remove(d)
  BY DEF Remove, MirrorConditions
<1>3. PICK k \in OpKeys : Settle(d, k) \/ Misfire(d, k)
  BY <1>1, <1>2
<1>4. CASE Settle(d, k)
  BY <1>4, RevisionPublishes, DeletionWithdraws DEF OpKeys
<1>5. CASE Misfire(d, k)
  BY <1>5, RowClaims DEF Misfire, Abandon, srcVars, Mirroring
<1>6. QED
  BY <1>3, <1>4, <1>5

LEMMA SeederMirrored ==
    ASSUME MirrorConditions, Mirroring, Viewed, Viewed', Seeder
    PROVE  [M!Next]_(M!vars)
<1>1. PICK d \in DocIds : Seed(d)
  BY DEF Seeder
<1>2. PICK i \in Items : \E row : cursor' = [cursor EXCEPT ![i] = row]
  BY <1>1 DEF Seed, Upsert
<1>3. \A j \in Items : j # i => cursor'[j] = cursor[j]
  BY <1>2, DocFacts DEF Mirroring
<1>4. UNCHANGED <<docs, version, live>>
  BY <1>1 DEF Seed, srcVars, ragVars
<1>5. QED
  BY <1>3, <1>4, RowClaims DEF Mirroring

\* Every step of the program is a step of Mirror, or one it does not see.
LEMMA StepMirrored ==
    ASSUME MirrorConditions, MirrorInv, Viewed, Viewed', [SyncNext]_allVars
    PROVE  [M!Next]_(M!vars)
<1>1. MirrorSteps /\ Mirroring
  BY SyncIsMirrorStep DEF MirrorInv, Mirroring
<1>2. ASSUME NEW p \in Tasks, Run(p)
      PROVE  [M!Next]_(M!vars)
  <2>1. TypeInv
    BY <1>1 DEF Mirroring, Base, TypedSync
  <2>2. QED
    BY <1>1, <1>2, <2>1, RunClaims, RowClaims DEF Mirroring
<1>3. ASSUME NEW p \in Tasks,
             \/ \E i \in Primary, tok \in Versions : PushRef(p, i, tok)
             \/ \E i \in Items : DeleteByRef(p, i) \/ \E d \in DocIds : ReapOrphan(p, i, d)
             \/ Abort(p) \/ Collect(p)
      PROVE  [M!Next]_(M!vars)
  <2>1. UNCHANGED <<docs, version, live, cursor>>
    BY <1>3 DEF PushRef, DeleteByRef, ReapOrphan, Starts, Abort, Raise, Collect, srcVars, ragVars
  <2>2. QED
    BY <1>1, <2>1, RowClaims DEF Mirroring
<1>4. CASE Crash \/ ResetSweepCache \/ Aside
  <2>1. UNCHANGED <<docs, version, live, cursor>>
    BY <1>4 DEF Crash, ResetSweepCache, Aside, srcVars, ragVars
  <2>2. QED
    BY <1>1, <2>1, RowClaims DEF Mirroring
<1>5. CASE Source \/ Service \/ Seeder
  BY <1>1, <1>5, SourceMoves, ServiceMirrored, SeederMirrored DEF Source
<1>6. QED
  BY <1>1, <1>2, <1>3, <1>4, <1>5, ServeMirrored DEF MirrorSteps

LEMMA StartMirrored ==
    ASSUME SyncInit, Viewed
    PROVE  M!Init
<1>1. /\ version = [i \in Items |-> 1] /\ live = [i \in Items |-> TRUE]
      /\ \A i \in Items : ActiveOf(docs, i) = {}
  BY DEF SyncInit, Init, IronRagInit, FreeDoc, ActiveOf
<1>2. \A i \in Items : Shown(i) = 0
  BY <1>1 DEF Viewed
<1>3. ASSUME NEW i \in Items
      PROVE  Claimed(i) = 0
  <2>1. Claimed(i) \in 0 .. 0
    BY <1>2 DEF Viewed
  <2>2. QED
    BY <2>1
<1>4. QED
  BY <1>1, <1>2, <1>3 DEF M!Init

\* SyncManager implements Mirror: whatever the sweeps, the webhooks' calls, the
\* reaper, the seeder, the service and the faults do, the copy of an item never
\* goes back to an earlier version, is withdrawn only when the item has left the
\* source, and no cursor row claims a version later than the copy's.
THEOREM MirrorImplemented ==
    ASSUME MirrorConditions
    PROVE  SyncSpec /\ []OneCallPerItem => ImplementsMirror
<1>1. MirrorInv => Viewed
  BY ViewFacts DEF MirrorInv
<1>2. SyncSpec /\ []OneCallPerItem => []MirrorInv
  BY MirrorInvariant
<1>3. SyncInit /\ Viewed => M!Init
  BY StartMirrored
<1>4. MirrorInv /\ Viewed /\ Viewed' /\ [SyncNext]_allVars => [M!Next]_(M!vars)
  BY StepMirrored
<1>5. QED
  BY <1>1, <1>2, <1>3, <1>4, PTL DEF SyncSpec, ImplementsMirror, M!Spec
=============================================================================
