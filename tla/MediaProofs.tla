----------------------------- MODULE MediaProofs -----------------------------
(***************************************************************************)
(* What holds of MediaLibrary for any number of items, clients, rows,       *)
(* stored objects and concurrent operations.                                *)
(***************************************************************************)
EXTENDS MediaLibrary, TLAPS

----------------------------------------------------------------------------
(* Types.                                                                   *)

LEMMA OpTypes ==
  ASSUME MediaTypeOK, NEW o \in Op
  PROVE  /\ op[o].pc \in {"findByHash", "put", "anchor", "version", "create"} =>
              op[o] \in Making
         /\ op[o].pc \in {"delete", "gc", "unlink"} => op[o] \in Purging
         /\ Makes(o) => op[o] \in Making
         /\ Makes(o) \/ op[o].kind = "purge" <=> ~Idle(o)
         /\ op[o].kind \in Kind <=> ~Idle(o)
  BY DEF MediaTypeOK, IdleOp, Making, Purging, Makes, Idle, Kind

LEMMA RowTypes ==
  ASSUME MediaTypeOK
  PROVE  /\ \A a \in Rows : a \in Asset /\ asset[a] \in AssetRow
         /\ \A a \in Asset : a \in Rows <=> asset[a] \in AssetRow
         /\ \A c : RowsOf(c) \subseteq Rows
  BY DEF MediaTypeOK, Rows, RowsOf, Exists, AssetRow, Unused, Deleted

LEMMA BeginTypes ==
  ASSUME MediaTypeOK, NEW o \in Op, NEW locals \in Making \cup Purging,
         Begin(o, locals)
  PROVE  /\ op' \in [Op -> {IdleOp} \cup Making \cup Purging]
         /\ begun' \in 0 .. MaxOps
         /\ clashes' \subseteq {{k1, k2} : k1, k2 \in Kind}
<1>1. locals.kind \in Kind
  BY DEF Making, Purging, Kind
<1>2. \A p \in Op : ~Idle(p) => op[p].kind \in Kind
  BY OpTypes
<1>3. {{locals.kind, op[p].kind} : p \in {q \in Op : ~Idle(q)}}
        \subseteq {{k1, k2} : k1, k2 \in Kind}
  BY <1>1, <1>2
<1>4. clashes' \subseteq {{k1, k2} : k1, k2 \in Kind}
  BY <1>3 DEF Begin, MediaTypeOK
<1>5. begun' \in 0 .. MaxOps
  BY MediaAssumption DEF Begin, MediaTypeOK
<1> QED
  BY <1>4, <1>5 DEF Begin, MediaTypeOK

LEMMA ContinueTypes ==
  ASSUME MediaTypeOK, NEW o \in Op, NEW locals \in {IdleOp} \cup Making \cup Purging,
         Continue(o, locals)
  PROVE  /\ op' \in [Op -> {IdleOp} \cup Making \cup Purging]
         /\ begun' \in 0 .. MaxOps
         /\ clashes' \subseteq {{k1, k2} : k1, k2 \in Kind}
  BY DEF Continue, MediaTypeOK

\* What the steps of an operation that makes a row leave in its locals.
LEMMA MakerSteps ==
  ASSUME MediaTypeOK, MakersAreReady, NEW o \in Op
  PROVE  /\ \A b \in Blob : OpAt(o, "put") =>
              [op[o] EXCEPT !.pc = "create", !.url = b] \in Making
         /\ OpAt(o, "findByHash") => [op[o] EXCEPT !.pc = "put"] \in Making
         /\ \A u \in Url : OpAt(o, "findByHash") =>
              [op[o] EXCEPT !.pc = "create", !.url = u] \in Making
         /\ OpAt(o, "anchor") => [op[o] EXCEPT !.pc = "version"] \in Making
         /\ \A v \in Nat : OpAt(o, "version") =>
              [op[o] EXCEPT !.pc = "create", !.version = v + 1] \in Making
<1>1. CASE op[o] \in Making
  <2>1. \A b \in Blob : [op[o] EXCEPT !.pc = "create", !.url = b] \in Making
    BY <1>1 DEF Making, Url
  <2>2. [op[o] EXCEPT !.pc = "put"] \in Making
    BY <1>1 DEF Making
  <2>3. \A u \in Url : [op[o] EXCEPT !.pc = "create", !.url = u] \in Making
    BY <1>1 DEF Making
  <2>4. [op[o] EXCEPT !.pc = "version"] \in Making
    BY <1>1 DEF Making
  <2>5. \A n \in Nat \ {0} : [op[o] EXCEPT !.pc = "create", !.version = n] \in Making
    BY <1>1 DEF Making
  <2>6. \A v \in Nat : v + 1 \in Nat \ {0}
    OBVIOUS
  <2> QED
    BY <2>1, <2>2, <2>3, <2>4, <2>5, <2>6
<1>2. CASE op[o] \notin Making
  BY <1>2, OpTypes DEF OpAt
<1> QED
  BY <1>1, <1>2

LEMMA TypesKept ==
  ASSUME MediaTypeOK, MakersAreReady, MediaNext
  PROVE  MediaTypeOK'
<1> USE MediaAssumption
<1>1. ASSUME NEW o \in Op, NEW i \in Item, NEW h \in Bytes, GenerateImage(o, i, h)
      PROVE  MediaTypeOK'
  <2>1. Generating(i, h, "findByHash") \in Making
    BY DEF Generating, Making
  <2> QED
    BY <1>1, <2>1, BeginTypes DEF GenerateImage, MediaTypeOK
<1>2. ASSUME NEW o \in Op, NEW i \in Item, ProduceVideo(o, i)
      PROVE  MediaTypeOK'
  <2>1. Generating(i, NoHash, "put") \in Making
    BY DEF Generating, Making
  <2> QED
    BY <1>2, <2>1, BeginTypes DEF ProduceVideo, MediaTypeOK
<1>3. ASSUME NEW o \in Op, FindByHash(o)
      PROVE  MediaTypeOK'
  <2>0. OpAt(o, "findByHash") /\ UNCHANGED <<inUse, asset, blob>>
    BY <1>3 DEF FindByHash
  <2>1. CASE Continue(o, [op[o] EXCEPT !.pc = "put"])
    <3>1. [op[o] EXCEPT !.pc = "put"] \in Making
      BY <2>0, MakerSteps
    <3> QED
      BY <2>0, <2>1, <3>1, ContinueTypes DEF MediaTypeOK
  <2>2. ASSUME NEW a \in SameBytes(ClientOf[op[o].item], op[o].hash),
               Continue(o, [op[o] EXCEPT !.pc = "create", !.url = asset[a].url])
        PROVE  MediaTypeOK'
    <3>1. asset[a].url \in Url
      BY RowTypes DEF SameBytes, AssetRow
    <3>2. [op[o] EXCEPT !.pc = "create", !.url = asset[a].url] \in Making
      BY <2>0, <3>1, MakerSteps
    <3> QED
      BY <2>0, <2>2, <3>2, ContinueTypes DEF MediaTypeOK
  <2> QED
    BY <1>3, <2>1, <2>2 DEF FindByHash
<1>4. ASSUME NEW o \in Op, NEW b \in Blob, Put(o, b)
      PROVE  MediaTypeOK'
  <2>1. [op[o] EXCEPT !.pc = "create", !.url = b] \in Making
    BY <1>4, MakerSteps DEF Put
  <2> QED
    BY <1>4, <2>1, ContinueTypes DEF Put, MediaTypeOK
<1>5. ASSUME NEW o \in Op, NEW a \in Asset, CreateAsset(o, a)
      PROVE  MediaTypeOK'
  <2>1. op[o] \in Making /\ op[o].url \in Url
    BY <1>5, OpTypes DEF CreateAsset, OpAt, MakersAreReady
  <2>2. NewRow(op[o].item, op[o].url,
               IF op[o].kind = "generate" THEN "generated" ELSE "reused",
               op[o].hash, op[o].group, op[o].version) \in AssetRow
    BY <2>1 DEF NewRow, AssetRow, Making
  <2> QED
    BY <1>5, <2>2, ContinueTypes DEF CreateAsset, End, MediaTypeOK
<1>6. ASSUME NEW o \in Op, NEW a \in Asset, NEW i \in Item, Reattach(o, a, i)
      PROVE  MediaTypeOK'
  <2>1. asset[a] \in AssetRow
    BY <1>6, RowTypes DEF Reattach, MayReuse, Rows
  <2> DEFINE anchored == asset[a].group # NoGroup
             locals == [kind |-> "reattach",
                        pc |-> IF anchored THEN "version" ELSE "anchor",
                        from |-> a, item |-> i, url |-> asset[a].url,
                        hash |-> asset[a].hash,
                        group |-> IF anchored THEN asset[a].group ELSE a,
                        version |-> 1]
  <2>2. locals \in Making
    BY <2>1 DEF AssetRow, Making
  <2>3. Begin(o, locals)
    BY <1>6 DEF Reattach
  <2> QED
    BY <1>6, <2>2, <2>3, BeginTypes DEF Reattach, MediaTypeOK
<1>7. ASSUME NEW o \in Op, AnchorGroup(o)
      PROVE  MediaTypeOK'
  <2>1. op[o] \in Making /\ op[o].group \in Asset \cup {NoGroup}
    BY <1>7, OpTypes DEF AnchorGroup, OpAt, Making
  <2>2. \A a \in Asset : Exists(a) => [asset[a] EXCEPT !.group = op[o].group] \in AssetRow
    BY <2>1, RowTypes DEF Rows, AssetRow
  <2>3. asset' \in [Asset -> {Unused, Deleted} \cup AssetRow]
    BY <1>7, <2>2 DEF AnchorGroup, MediaTypeOK, MakersAreReady
  <2>4. [op[o] EXCEPT !.pc = "version"] \in Making
    BY <1>7, MakerSteps DEF AnchorGroup
  <2> QED
    BY <1>7, <2>3, <2>4, ContinueTypes DEF AnchorGroup, MediaTypeOK
<1>8. ASSUME NEW o \in Op, NextVersion(o)
      PROVE  MediaTypeOK'
  <2>1. PICK v \in LatestVersion(op[o].group) :
          Continue(o, [op[o] EXCEPT !.pc = "create", !.version = v + 1])
    BY <1>8 DEF NextVersion
  <2>2. v \in Nat
    BY RowTypes DEF LatestVersion, Group, AssetRow
  <2>3. [op[o] EXCEPT !.pc = "create", !.version = v + 1] \in Making
    BY <1>8, <2>2, MakerSteps DEF NextVersion
  <2> QED
    BY <1>8, <2>1, <2>3, ContinueTypes DEF NextVersion, MediaTypeOK
<1>9. ASSUME NEW o \in Op, NEW c \in Client, NEW old \in SUBSET RowsOf(c),
             FindPurgeable(o, c, old)
      PROVE  MediaTypeOK'
  <2> DEFINE locals == [kind |-> "purge", pc |-> "delete", ids |-> old,
                        urls |-> {asset[a].url : a \in old}, url |-> NoUrl]
  <2>1. old \subseteq Asset /\ {asset[a].url : a \in old} \subseteq Url
    BY RowTypes DEF AssetRow
  <2>2. locals \in Purging
    BY <2>1 DEF Purging
  <2>3. Begin(o, locals)
    BY <1>9 DEF FindPurgeable
  <2> QED
    BY <1>9, <2>2, <2>3, BeginTypes DEF FindPurgeable, MediaTypeOK
<1>10. ASSUME NEW o \in Op, DeleteAssets(o)
       PROVE  MediaTypeOK'
  <2>1. [op[o] EXCEPT !.pc = "gc", !.ids = {}] \in Purging
    BY <1>10, OpTypes DEF DeleteAssets, OpAt, Purging
  <2> QED
    BY <1>10, <2>1, ContinueTypes DEF DeleteAssets, MediaTypeOK
<1>11. ASSUME NEW o \in Op, NEW u \in Url, CountByUrl(o, u)
       PROVE  MediaTypeOK'
  <2>1. [op[o] EXCEPT !.urls = @ \ {u},
                      !.pc = IF Referenced(u) THEN "gc" ELSE "unlink",
                      !.url = IF Referenced(u) THEN NoUrl ELSE u] \in Purging
    BY <1>11, OpTypes DEF CountByUrl, OpAt, Purging
  <2> QED
    BY <1>11, <2>1, ContinueTypes DEF CountByUrl, MediaTypeOK
<1>12. ASSUME NEW o \in Op, DeleteByUrl(o)
       PROVE  MediaTypeOK'
  <2>1. [op[o] EXCEPT !.pc = "gc", !.url = NoUrl] \in Purging
    BY <1>12, OpTypes DEF DeleteByUrl, OpAt, Purging
  <2>2. blob' \in [Blob -> {"none", "stored", "deleted"}]
    BY <1>12 DEF DeleteByUrl, MediaTypeOK
  <2> QED
    BY <1>12, <2>1, <2>2, ContinueTypes DEF DeleteByUrl, MediaTypeOK
<1>13. ASSUME NEW o \in Op, PurgeDone(o) \/ OpDies(o)
       PROVE  MediaTypeOK'
  BY <1>13, ContinueTypes DEF PurgeDone, OpDies, End, MediaTypeOK
<1>14. ASSUME NEW i \in Item, NEW a \in Asset, PushAsset(i, a)
       PROVE  MediaTypeOK'
  <2>1. NewRow(i, External, "upload", NoHash, NoGroup, 1) \in AssetRow
    BY DEF NewRow, AssetRow, Url
  <2> QED
    BY <1>14, <2>1 DEF PushAsset, MediaTypeOK
<1>15. ASSUME NEW a \in Asset, NEW archived \in BOOLEAN, SetArchived(a, archived)
       PROVE  MediaTypeOK'
  <2>1. asset[a] \in AssetRow
    BY <1>15, RowTypes DEF SetArchived, Rows
  <2>2. [asset[a] EXCEPT !.state = IF archived THEN "archived" ELSE "live"] \in AssetRow
    BY <2>1 DEF AssetRow
  <2>3. {"purge", "restore"} \in {{k1, k2} : k1, k2 \in Kind}
    BY DEF Kind
  <2>4. clashes' \subseteq {{k1, k2} : k1, k2 \in Kind}
    BY <1>15, <2>3 DEF SetArchived, MediaTypeOK
  <2> QED
    BY <1>15, <2>2, <2>4 DEF SetArchived, MediaTypeOK
<1>16. ASSUME NEW c \in Client, NEW old \in SUBSET RowsOf(c), RunRetention(c, old)
       PROVE  MediaTypeOK'
  <2>1. \A a \in old : [asset[a] EXCEPT !.state = "archived"] \in AssetRow
    BY RowTypes DEF AssetRow
  <2> QED
    BY <1>16, <2>1 DEF RunRetention, MediaTypeOK
<1>17. ASSUME NEW i \in Item, ItemMoves(i)
       PROVE  MediaTypeOK'
  BY <1>17 DEF ItemMoves, MediaTypeOK
<1> QED
  BY <1>1, <1>2, <1>3, <1>4, <1>5, <1>6, <1>7, <1>8, <1>9, <1>10, <1>11, <1>12,
     <1>13, <1>14, <1>15, <1>16, <1>17 DEF MediaNext, OpStep

----------------------------------------------------------------------------
(* Nothing that is about to make a row lacks its url or its anchor.         *)

\* A step of an operation leaves the others alone.
LEMMA MakersKept ==
  ASSUME MediaTypeOK, MakersAreReady, MediaNext
  PROVE  MakersAreReady'
<1> USE DEF MakersAreReady, OpAt
<1>1. ASSUME NEW o \in Op, op' = [op EXCEPT ![o] = op'[o]],
             op'[o].pc \in {"anchor", "version", "create"} => op'[o].url \in Url,
             op'[o].pc = "anchor" =>
               op'[o].group = op'[o].from /\ op'[o].from \in Asset
      PROVE  MakersAreReady'
  <2>1. \A p \in Op : p # o => op'[p] = op[p]
    BY <1>1 DEF MediaTypeOK
  <2> QED
    BY <1>1, <2>1
<1>2. CASE UNCHANGED op
  BY <1>2
<1>3. ASSUME NEW o \in Op, NEW locals, locals.pc \notin {"anchor", "version", "create"},
             op' = [op EXCEPT ![o] = locals]
      PROVE  MakersAreReady'
  BY <1>1, <1>3 DEF MediaTypeOK
<1>4. ASSUME NEW o \in Op, NEW i \in Item, NEW h \in Bytes, GenerateImage(o, i, h)
      PROVE  MakersAreReady'
  BY <1>3, <1>4 DEF GenerateImage, Begin, Generating
<1>5. ASSUME NEW o \in Op, NEW i \in Item, ProduceVideo(o, i)
      PROVE  MakersAreReady'
  BY <1>3, <1>5 DEF ProduceVideo, Begin, Generating
<1>6. ASSUME NEW o \in Op, FindByHash(o)
      PROVE  MakersAreReady'
  <2>1. op[o] \in Making
    BY <1>6, OpTypes DEF FindByHash
  <2>2. CASE op' = [op EXCEPT ![o] = [op[o] EXCEPT !.pc = "put"]]
    <3>1. [op[o] EXCEPT !.pc = "put"].pc = "put"
      BY <2>1 DEF Making
    <3> QED
      BY <2>2, <3>1, <1>3
  <2>3. ASSUME NEW a \in SameBytes(ClientOf[op[o].item], op[o].hash),
               op' = [op EXCEPT ![o] =
                        [op[o] EXCEPT !.pc = "create", !.url = asset[a].url]]
        PROVE  MakersAreReady'
    <3>1. asset[a].url \in Url
      BY RowTypes DEF SameBytes, AssetRow
    <3>2. op'[o].pc = "create" /\ op'[o].url = asset[a].url
      BY <2>1, <2>3 DEF Making, MediaTypeOK
    <3>3. op' = [op EXCEPT ![o] = op'[o]]
      BY <2>3 DEF MediaTypeOK
    <3> QED
      BY <3>1, <3>2, <3>3, <1>1
  <2> QED
    BY <1>6, <2>2, <2>3 DEF FindByHash, Continue
<1>7. ASSUME NEW o \in Op, NEW b \in Blob, Put(o, b)
      PROVE  MakersAreReady'
  <2>1. op[o] \in Making
    BY <1>7, OpTypes DEF Put
  <2>2. op'[o].pc = "create" /\ op'[o].url = b
    BY <1>7, <2>1 DEF Put, Continue, Making, MediaTypeOK
  <2>3. op' = [op EXCEPT ![o] = op'[o]]
    BY <1>7 DEF Put, Continue, MediaTypeOK
  <2> QED
    BY <2>2, <2>3, <1>1 DEF Url
<1>8. ASSUME NEW o \in Op, NEW a \in Asset, NEW i \in Item, Reattach(o, a, i)
      PROVE  MakersAreReady'
  <2>1. op' = [op EXCEPT ![o] = op'[o]] /\ op'[o].pc \in {"version", "anchor"}
    BY <1>8 DEF Reattach, Begin, MediaTypeOK
  <2>2. op'[o].pc = "anchor" => op'[o].group = a /\ op'[o].from = a
    BY <1>8 DEF Reattach, Begin, MediaTypeOK
  <2>3. asset[a].url \in Url
    BY <1>8, RowTypes DEF Reattach, MayReuse, Rows, AssetRow
  <2>4. op'[o].url = asset[a].url
    BY <1>8 DEF Reattach, Begin, MediaTypeOK
  <2> QED
    BY <2>1, <2>2, <2>3, <2>4, <1>1
<1>9. ASSUME NEW o \in Op, NextVersion(o)
      PROVE  MakersAreReady'
  <2>1. op[o] \in Making
    BY <1>9, OpTypes DEF NextVersion
  <2>2. op' = [op EXCEPT ![o] = op'[o]] /\ op'[o].pc = "create" /\ op'[o].url = op[o].url
    BY <1>9, <2>1 DEF NextVersion, Continue, Making, MediaTypeOK
  <2>3. op[o].url \in Url
    BY <1>9 DEF NextVersion
  <2> QED
    BY <2>2, <2>3, <1>1
<1>10. ASSUME NEW o \in Op, AnchorGroup(o)
       PROVE  MakersAreReady'
  <2>1. op[o] \in Making
    BY <1>10, OpTypes DEF AnchorGroup
  <2>2. op' = [op EXCEPT ![o] = op'[o]] /\ op'[o].pc = "version" /\ op'[o].url = op[o].url
    BY <1>10, <2>1 DEF AnchorGroup, Continue, Making, MediaTypeOK
  <2>3. op[o].url \in Url
    BY <1>10 DEF AnchorGroup
  <2> QED
    BY <2>2, <2>3, <1>1
<1>11. ASSUME NEW o \in Op, PurgeDone(o) \/ OpDies(o)
       PROVE  MakersAreReady'
  BY <1>3, <1>11 DEF PurgeDone, OpDies, End, Continue, IdleOp
<1>12. ASSUME NEW o \in Op, NEW a \in Asset, CreateAsset(o, a)
       PROVE  MakersAreReady'
  BY <1>3, <1>12 DEF CreateAsset, End, Continue, IdleOp
<1>13. ASSUME NEW o \in Op, NEW c \in Client, NEW old \in SUBSET RowsOf(c),
             FindPurgeable(o, c, old)
       PROVE  MakersAreReady'
  BY <1>3, <1>13 DEF FindPurgeable, Begin
<1>14. ASSUME NEW o \in Op,
              DeleteAssets(o) \/ DeleteByUrl(o) \/ \E u \in Url : CountByUrl(o, u)
       PROVE  MakersAreReady'
  <2>1. op[o] \in Purging
    BY <1>14, OpTypes DEF DeleteAssets, DeleteByUrl, CountByUrl
  <2>2. op' = [op EXCEPT ![o] = op'[o]] /\ op'[o].pc \in {"gc", "unlink"}
    <3>1. CASE DeleteAssets(o)
      BY <3>1, <2>1 DEF DeleteAssets, Continue, Purging, MediaTypeOK
    <3>2. CASE DeleteByUrl(o)
      BY <3>2, <2>1 DEF DeleteByUrl, Continue, Purging, MediaTypeOK
    <3>3. ASSUME NEW u \in Url, CountByUrl(o, u)
          PROVE  op' = [op EXCEPT ![o] = op'[o]] /\ op'[o].pc \in {"gc", "unlink"}
      BY <3>3, <2>1 DEF CountByUrl, Continue, Purging, MediaTypeOK
    <3> QED
      BY <1>14, <3>1, <3>2, <3>3
  <2> QED
    BY <2>2, <1>1
<1>15. CASE \/ \E i \in Item, a \in Asset : PushAsset(i, a)
            \/ \E a \in Asset, archived \in BOOLEAN : SetArchived(a, archived)
            \/ \E c \in Client : \E old \in SUBSET RowsOf(c) : RunRetention(c, old)
            \/ \E i \in Item : ItemMoves(i)
  BY <1>2, <1>15 DEF PushAsset, SetArchived, RunRetention, ItemMoves
<1> QED
  BY <1>4, <1>5, <1>6, <1>7, <1>8, <1>9, <1>10, <1>11, <1>12, <1>13, <1>14, <1>15
  DEF MediaNext, OpStep

----------------------------------------------------------------------------
(* Every step hands urls and groups on within a client, or takes new ones.  *)

RowClient(a) == ClientOf[asset[a].item]
OpClient(o) == ClientOf[op[o].item]

\* Held already, or the new url fu, taken for client c0; fg is the new group.
KnownUrl(u, c, fu, c0) == u \in Blob => HoldsUrl(u, c) \/ (u = fu /\ c = c0)
KnownGroup(g, c, fg, c0) == g \in Asset => HoldsGroup(g, c) \/ (g = fg /\ c = c0)

LEMMA RowsHold ==
  ASSUME NEW a \in Rows
  PROVE  /\ HoldsUrl(asset[a].url, RowClient(a))
         /\ HoldsGroup(a, RowClient(a))
         /\ HoldsGroup(asset[a].group, RowClient(a))
  BY DEF HoldsUrl, HoldsGroup, Group, RowClient, Rows

LEMMA MakersHold ==
  ASSUME NEW o \in Op, Makes(o)
  PROVE  HoldsUrl(op[o].url, OpClient(o)) /\ HoldsGroup(op[o].group, OpClient(o))
  BY DEF HoldsUrl, HoldsGroup, OpClient

LEMMA ClaimsStep ==
  ASSUME ClaimsInv, NEW fu, NEW fg, NEW c0,
         fu \in Blob => blob[fu] = "none" /\ blob'[fu] # "none",
         fg \in Asset => asset[fg] = Unused /\ asset'[fg] # Unused,
         \A u \in Blob : blob[u] # "none" => blob'[u] # "none",
         \A g \in Asset : asset[g] # Unused => asset'[g] # Unused,
         \A a \in Rows' :
           /\ KnownUrl(asset'[a].url, RowClient(a)', fu, c0)
           /\ KnownGroup(a, RowClient(a)', fg, c0)
           /\ KnownGroup(asset'[a].group, RowClient(a)', fg, c0),
         \A o \in Op : Makes(o)' =>
           /\ KnownUrl(op'[o].url, OpClient(o)', fu, c0)
           /\ KnownGroup(op'[o].group, OpClient(o)', fg, c0)
  PROVE  ClaimsInv'
<1>1. \A u \in Blob, c \in Client :
        HoldsUrl(u, c)' => HoldsUrl(u, c) \/ (u = fu /\ c = c0)
  BY DEF HoldsUrl, KnownUrl, RowClient, OpClient
<1>2. \A g \in Asset, c \in Client :
        HoldsGroup(g, c)' => HoldsGroup(g, c) \/ (g = fg /\ c = c0)
  BY DEF HoldsGroup, Group, KnownGroup, RowClient, OpClient
<1>3. UnusedIsUnheld'
  BY <1>1, <1>2 DEF ClaimsInv, UnusedIsUnheld
<1>4. UrlsHaveOneClient'
  BY <1>1 DEF ClaimsInv, UnusedIsUnheld, UrlsHaveOneClient
<1>5. GroupsHaveOneClient'
  BY <1>2 DEF ClaimsInv, UnusedIsUnheld, GroupsHaveOneClient
<1> QED
  BY <1>3, <1>4, <1>5 DEF ClaimsInv

\* A step that gives no row and no operation anything new.
RowsStay ==
  /\ \A a \in Asset : asset[a] # Unused => asset'[a] # Unused
  /\ \A a \in Rows' : /\ a \in Rows
                       /\ asset'[a].url = asset[a].url
                       /\ asset'[a].item = asset[a].item
                       /\ asset'[a].group = asset[a].group

BlobsStay == \A u \in Blob : blob[u] # "none" => blob'[u] # "none"

OpStays(o) ==
  Makes(o)' => /\ Makes(o)
               /\ op'[o].url = op[o].url
               /\ op'[o].item = op[o].item
               /\ op'[o].group = op[o].group

\* Operation o may hold something new, if it is known for its client.
LEMMA OpTakes ==
  ASSUME ClaimsInv, RowsStay, BlobsStay, NEW o \in Op,
         \A p \in Op : p # o => op'[p] = op[p],
         Makes(o)' => /\ op'[o].url \in Blob => HoldsUrl(op'[o].url, OpClient(o)')
                      /\ op'[o].group \in Asset => HoldsGroup(op'[o].group, OpClient(o)')
  PROVE  ClaimsInv'
<1>1. NoUrl \notin Blob /\ NoGroup \notin Asset
  BY MediaAssumption
<1>2. \A a \in Rows' :
        /\ HoldsUrl(asset'[a].url, RowClient(a)')
        /\ HoldsGroup(a, RowClient(a)')
        /\ HoldsGroup(asset'[a].group, RowClient(a)')
  BY RowsHold DEF RowsStay, RowClient
<1>3. \A p \in Op : p # o /\ Makes(p)' =>
        HoldsUrl(op'[p].url, OpClient(p)') /\ HoldsGroup(op'[p].group, OpClient(p)')
  BY MakersHold DEF Makes, OpClient
<1> QED
  BY <1>1, <1>2, <1>3, ClaimsStep DEF RowsStay, BlobsStay, KnownUrl, KnownGroup

LEMMA OpsStay ==
  ASSUME ClaimsInv, RowsStay, BlobsStay, \A o \in Op : OpStays(o)
  PROVE  ClaimsInv'
<1>1. \A a \in Rows' :
        /\ HoldsUrl(asset'[a].url, RowClient(a)')
        /\ HoldsGroup(a, RowClient(a)')
        /\ HoldsGroup(asset'[a].group, RowClient(a)')
  BY RowsHold DEF RowsStay, RowClient
<1>2. \A p \in Op : Makes(p)' =>
        HoldsUrl(op'[p].url, OpClient(p)') /\ HoldsGroup(op'[p].group, OpClient(p)')
  BY MakersHold DEF OpStays, OpClient
<1> QED
  BY <1>1, <1>2, ClaimsStep, MediaAssumption
  DEF RowsStay, BlobsStay, KnownUrl, KnownGroup

LEMMA ClaimsKept ==
  ASSUME MediaTypeOK, MakersAreReady, ClaimsInv, MediaNext
  PROVE  ClaimsInv'
<1> USE MediaAssumption
<1>1. ASSUME UNCHANGED asset
      PROVE  RowsStay
  BY <1>1 DEF RowsStay, Rows, Exists
<1>2. ASSUME UNCHANGED blob
      PROVE  BlobsStay
  BY <1>2 DEF BlobsStay
<1>3. ASSUME NEW o \in Op, NEW locals, op' = [op EXCEPT ![o] = locals]
      PROVE  op'[o] = locals /\ \A p \in Op : p # o => op'[p] = op[p]
  BY <1>3 DEF MediaTypeOK
<1>4. ASSUME NEW o \in Op, NEW i \in Item, NEW h \in Bytes, GenerateImage(o, i, h)
      PROVE  ClaimsInv'
  <2>1. op'[o] = Generating(i, h, "findByHash") /\ \A p \in Op : p # o => op'[p] = op[p]
    BY <1>3, <1>4 DEF GenerateImage, Begin
  <2>2. op'[o].url \notin Blob /\ op'[o].group \notin Asset
    BY <2>1 DEF Generating
  <2> QED
    BY <1>1, <1>2, <1>4, <2>1, <2>2, OpTakes DEF GenerateImage
<1>5. ASSUME NEW o \in Op, NEW i \in Item, ProduceVideo(o, i)
      PROVE  ClaimsInv'
  <2>1. op'[o] = Generating(i, NoHash, "put") /\ \A p \in Op : p # o => op'[p] = op[p]
    BY <1>3, <1>5 DEF ProduceVideo, Begin
  <2>2. op'[o].url \notin Blob /\ op'[o].group \notin Asset
    BY <2>1 DEF Generating
  <2> QED
    BY <1>1, <1>2, <1>5, <2>1, <2>2, OpTakes DEF ProduceVideo
<1>6. ASSUME NEW o \in Op, FindByHash(o)
      PROVE  ClaimsInv'
  <2>0. op[o] \in Making /\ Makes(o) /\ UNCHANGED <<asset, blob>>
    BY <1>6, OpTypes DEF FindByHash, OpAt, Making, Makes
  <2>1. CASE op' = [op EXCEPT ![o] = [op[o] EXCEPT !.pc = "put"]]
    <3>1. \A p \in Op : OpStays(p)
      BY <2>0, <2>1, <1>3 DEF OpStays, Making, Makes, MediaTypeOK
    <3> QED
      BY <1>1, <1>2, <2>0, <3>1, OpsStay
  <2>2. ASSUME NEW a \in SameBytes(ClientOf[op[o].item], op[o].hash),
               op' = [op EXCEPT ![o] =
                        [op[o] EXCEPT !.pc = "create", !.url = asset[a].url]]
        PROVE  ClaimsInv'
    <3>1. a \in Rows /\ RowClient(a) = OpClient(o)
      BY DEF SameBytes, RowsOf, RowClient, OpClient
    <3>2. /\ op'[o].url = asset[a].url
          /\ op'[o].group = op[o].group
          /\ OpClient(o)' = OpClient(o)
      BY <2>0, <2>2 DEF Making, OpClient, MediaTypeOK
    <3>3. HoldsUrl(op'[o].url, OpClient(o)') /\ HoldsGroup(op'[o].group, OpClient(o)')
      BY <2>0, <3>1, <3>2, RowsHold, MakersHold
    <3> QED
      BY <1>1, <1>2, <1>3, <2>0, <2>2, <3>3, OpTakes
  <2> QED
    BY <1>6, <2>1, <2>2 DEF FindByHash, Continue
<1>7. ASSUME NEW o \in Op, NEW b \in Blob, Put(o, b)
      PROVE  ClaimsInv'
  <2>1. op[o] \in Making /\ Makes(o)
    BY <1>7, OpTypes DEF Put, OpAt, Making, Makes
  <2>2. op'[o].url = b /\ op'[o].group = op[o].group /\ OpClient(o)' = OpClient(o)
    BY <1>7, <2>1 DEF Put, Continue, Making, OpClient, MediaTypeOK
  <2>3. \A p \in Op : p # o => op'[p] = op[p]
    BY <1>3, <1>7 DEF Put, Continue
  <2>4. blob[b] = "none" /\ blob'[b] # "none" /\ BlobsStay /\ UNCHANGED asset
    BY <1>7 DEF Put, BlobsStay, MediaTypeOK
  <2>5. \A a \in Rows' :
          /\ HoldsUrl(asset'[a].url, RowClient(a)')
          /\ HoldsGroup(a, RowClient(a)')
          /\ HoldsGroup(asset'[a].group, RowClient(a)')
    BY <1>1, <2>4, RowsHold DEF RowsStay, RowClient
  <2>6. \A p \in Op : p # o /\ Makes(p)' =>
          HoldsUrl(op'[p].url, OpClient(p)') /\ HoldsGroup(op'[p].group, OpClient(p)')
    BY <2>3, MakersHold DEF Makes, OpClient
  <2>7. HoldsGroup(op'[o].group, OpClient(o)')
    BY <2>1, <2>2, MakersHold
  <2> QED
    BY <2>2, <2>4, <2>5, <2>6, <2>7, ClaimsStep DEF BlobsStay, KnownUrl, KnownGroup
<1>8. ASSUME NEW o \in Op, NEW a \in Asset, CreateAsset(o, a)
      PROVE  ClaimsInv'
  <2>1. op[o] \in Making /\ Makes(o)
    BY <1>8, OpTypes DEF CreateAsset, OpAt, Making, Makes
  <2>2. /\ asset'[a].url = op[o].url
        /\ asset'[a].group = op[o].group
        /\ RowClient(a)' = OpClient(o)
        /\ asset[a] = Unused /\ asset'[a] # Unused
        /\ \A x \in Asset : x # a => asset'[x] = asset[x]
    BY <1>8 DEF CreateAsset, NewRow, RowClient, OpClient, MediaTypeOK, Unused
  <2>3. \A p \in Op : Makes(p)' => op'[p] = op[p]
    BY <1>8, <1>3 DEF CreateAsset, End, Continue, Makes, IdleOp
  <2>4. HoldsUrl(asset'[a].url, RowClient(a)') /\ HoldsGroup(asset'[a].group, RowClient(a)')
    BY <2>1, <2>2, MakersHold
  <2>5. \A x \in Rows' : x # a =>
          /\ HoldsUrl(asset'[x].url, RowClient(x)')
          /\ HoldsGroup(x, RowClient(x)')
          /\ HoldsGroup(asset'[x].group, RowClient(x)')
    BY <2>2, RowsHold DEF Rows, Exists, RowClient
  <2>6. \A p \in Op : Makes(p)' =>
          HoldsUrl(op'[p].url, OpClient(p)') /\ HoldsGroup(op'[p].group, OpClient(p)')
    BY <2>3, MakersHold DEF Makes, OpClient
  <2> DEFINE c0 == RowClient(a)'
  <2>7. NoUrl \notin Blob /\ UNCHANGED blob
    BY <1>8 DEF CreateAsset
  <2> QED
    BY <2>2, <2>4, <2>5, <2>6, <2>7, ClaimsStep DEF KnownUrl, KnownGroup
<1>9. ASSUME NEW o \in Op, NEW a \in Asset, NEW i \in Item, Reattach(o, a, i)
      PROVE  ClaimsInv'
  <2>1. a \in Rows /\ RowClient(a) = ClientOf[i]
    BY <1>9 DEF Reattach, MayReuse, Rows, RowClient
  <2>2. \E locals : op' = [op EXCEPT ![o] = locals]
    BY <1>9 DEF Reattach, Begin
  <2>3. /\ op'[o].url = asset[a].url
        /\ op'[o].group \in {a, asset[a].group}
        /\ OpClient(o)' = ClientOf[i]
    BY <1>9 DEF Reattach, Begin, OpClient, MediaTypeOK
  <2>4. HoldsUrl(op'[o].url, OpClient(o)') /\ HoldsGroup(op'[o].group, OpClient(o)')
    BY <2>1, <2>3, RowsHold
  <2> QED
    BY <1>1, <1>2, <1>3, <1>9, <2>2, <2>4, OpTakes DEF Reattach
<1>10. ASSUME NEW o \in Op, AnchorGroup(o)
       PROVE  ClaimsInv'
  <2>1. op[o] \in Making /\ Makes(o) /\ op[o].group = op[o].from
    BY <1>10, OpTypes DEF AnchorGroup, OpAt, Making, Makes, MakersAreReady
  <2>2. \A p \in Op : OpStays(p)
    BY <1>10, <2>1 DEF AnchorGroup, Continue, OpStays, Making, Makes, MediaTypeOK
  <2>3. \A p \in Op : Makes(p)' =>
          HoldsUrl(op'[p].url, OpClient(p)') /\ HoldsGroup(op'[p].group, OpClient(p)')
    BY <2>2, MakersHold DEF OpStays, OpClient
  <2>4. \A a \in Asset : /\ Exists(a)' => Exists(a)
                         /\ Exists(a) => /\ asset'[a].url = asset[a].url
                                         /\ asset'[a].item = asset[a].item
                                         /\ asset'[a].group \in {asset[a].group, a}
                         /\ asset[a] # Unused => asset'[a] # Unused
    <3>1. \A a \in Asset : Exists(a) => asset[a] \in AssetRow
      BY RowTypes DEF Rows
    <3>2. asset' = asset \/
          (/\ Exists(op[o].from)
           /\ asset' = [asset EXCEPT ![op[o].from].group = op[o].from])
      BY <1>10, <2>1 DEF AnchorGroup
    <3>3. CASE asset' = asset
      BY <3>3 DEF Exists
    <3>4. CASE /\ Exists(op[o].from)
               /\ asset' = [asset EXCEPT ![op[o].from].group = op[o].from]
      <4>1. \A a \in Asset : a # op[o].from => asset'[a] = asset[a]
        BY <3>4 DEF MediaTypeOK
      <4>2. CASE op[o].from \in Asset
        <5>1. asset[op[o].from] \in AssetRow
          BY <3>1, <3>4, <4>2
        <5>2. asset'[op[o].from] = [asset[op[o].from] EXCEPT !.group = op[o].from]
          BY <3>4, <4>2 DEF MediaTypeOK
        <5>3. /\ asset'[op[o].from] # Unused
              /\ asset'[op[o].from].url = asset[op[o].from].url
              /\ asset'[op[o].from].item = asset[op[o].from].item
              /\ asset'[op[o].from].group = op[o].from
          BY <5>1, <5>2 DEF AssetRow, Unused
        <5> QED
          BY <3>4, <4>1, <5>3 DEF Exists
      <4>3. CASE op[o].from \notin Asset
        BY <4>1, <4>3 DEF Exists
      <4> QED
        BY <4>2, <4>3
    <3> QED
      BY <3>2, <3>3, <3>4
  <2>5. \A a \in Rows' :
          /\ HoldsUrl(asset'[a].url, RowClient(a)')
          /\ HoldsGroup(a, RowClient(a)')
          /\ HoldsGroup(asset'[a].group, RowClient(a)')
    BY <2>4, RowsHold DEF Rows, RowClient
  <2>6. UNCHANGED blob
    BY <1>10 DEF AnchorGroup
  <2> QED
    BY <2>3, <2>4, <2>5, <2>6, ClaimsStep DEF KnownUrl, KnownGroup
<1>11. ASSUME NEW o \in Op, NextVersion(o)
       PROVE  ClaimsInv'
  <2>1. op[o] \in Making /\ Makes(o)
    BY <1>11, OpTypes DEF NextVersion, OpAt, Making, Makes
  <2>2. \A p \in Op : OpStays(p)
    BY <1>11, <2>1 DEF NextVersion, Continue, OpStays, Making, Makes, MediaTypeOK
  <2> QED
    BY <1>1, <1>2, <1>11, <2>2, OpsStay DEF NextVersion
<1>12. ASSUME NEW o \in Op, NEW c \in Client, NEW old \in SUBSET RowsOf(c),
             FindPurgeable(o, c, old)
       PROVE  ClaimsInv'
  <2>1. \A p \in Op : OpStays(p)
    BY <1>12 DEF FindPurgeable, Begin, OpStays, Makes, MediaTypeOK
  <2> QED
    BY <1>1, <1>2, <1>12, <2>1, OpsStay DEF FindPurgeable
<1>13. ASSUME NEW o \in Op,
              DeleteAssets(o) \/ DeleteByUrl(o) \/ \E u \in Url : CountByUrl(o, u)
       PROVE  ClaimsInv'
  <2>1. op[o] \in Purging
    BY <1>13, OpTypes DEF DeleteAssets, DeleteByUrl, CountByUrl, OpAt
  <2>2. op'[o].kind = "purge" /\ \A p \in Op : p # o => op'[p] = op[p]
    <3>1. CASE DeleteAssets(o)
      BY <3>1, <2>1 DEF DeleteAssets, Continue, Purging, MediaTypeOK
    <3>2. CASE DeleteByUrl(o)
      BY <3>2, <2>1 DEF DeleteByUrl, Continue, Purging, MediaTypeOK
    <3>3. ASSUME NEW u \in Url, CountByUrl(o, u)
          PROVE  op'[o].kind = "purge" /\ \A p \in Op : p # o => op'[p] = op[p]
      BY <3>3, <2>1 DEF CountByUrl, Continue, Purging, MediaTypeOK
    <3> QED
      BY <1>13, <3>1, <3>2, <3>3
  <2>3. \A p \in Op : OpStays(p)
    BY <2>2 DEF OpStays, Makes
  <2>4. RowsStay
    <3>1. CASE DeleteAssets(o)
      BY <3>1 DEF DeleteAssets, RowsStay, Rows, Exists, Deleted, Unused
    <3>2. CASE UNCHANGED asset
      BY <3>2, <1>1
    <3> QED
      BY <1>13, <3>1, <3>2 DEF DeleteByUrl, CountByUrl
  <2>5. BlobsStay
    <3>1. \/ UNCHANGED blob
          \/ op[o].url \in Blob /\ blob' = [blob EXCEPT ![op[o].url] = "deleted"]
      BY <1>13 DEF DeleteAssets, DeleteByUrl, CountByUrl
    <3> QED
      BY <3>1 DEF BlobsStay, MediaTypeOK
  <2> QED
    BY <2>3, <2>4, <2>5, OpsStay
<1>14. ASSUME NEW o \in Op, PurgeDone(o) \/ OpDies(o)
       PROVE  ClaimsInv'
  <2>1. \A p \in Op : OpStays(p)
    BY <1>14, <1>3 DEF PurgeDone, OpDies, End, Continue, OpStays, Makes, IdleOp
  <2> QED
    BY <1>1, <1>2, <1>14, <2>1, OpsStay DEF PurgeDone, OpDies
<1>15. ASSUME NEW i \in Item, NEW a \in Asset, PushAsset(i, a)
       PROVE  ClaimsInv'
  <2>1. /\ asset'[a].url = External
        /\ asset'[a].group = NoGroup
        /\ asset[a] = Unused /\ asset'[a] # Unused
        /\ \A x \in Asset : x # a => asset'[x] = asset[x]
    BY <1>15 DEF PushAsset, NewRow, Unused, MediaTypeOK
  <2>2. \A x \in Rows' : x # a =>
          /\ HoldsUrl(asset'[x].url, RowClient(x)')
          /\ HoldsGroup(x, RowClient(x)')
          /\ HoldsGroup(asset'[x].group, RowClient(x)')
    BY <2>1, RowsHold DEF Rows, Exists, RowClient
  <2>3. \A p \in Op : Makes(p)' =>
          HoldsUrl(op'[p].url, OpClient(p)') /\ HoldsGroup(op'[p].group, OpClient(p)')
    BY <1>15, MakersHold DEF PushAsset, Makes, OpClient
  <2> DEFINE c0 == RowClient(a)'
  <2>4. UNCHANGED blob
    BY <1>15 DEF PushAsset
  <2> QED
    BY <2>1, <2>2, <2>3, <2>4, ClaimsStep DEF KnownUrl, KnownGroup
<1>16. ASSUME NEW a \in Asset, NEW archived \in BOOLEAN, SetArchived(a, archived)
       PROVE  ClaimsInv'
  <2>1. asset[a] \in AssetRow
    BY <1>16, RowTypes DEF SetArchived, Rows
  <2>2. RowsStay
    BY <1>16, <2>1 DEF SetArchived, RowsStay, Rows, Exists, AssetRow, Unused, MediaTypeOK
  <2>3. \A p \in Op : OpStays(p)
    BY <1>16 DEF SetArchived, OpStays, Makes
  <2> QED
    BY <1>2, <1>16, <2>2, <2>3, OpsStay DEF SetArchived
<1>17. ASSUME NEW c \in Client, NEW old \in SUBSET RowsOf(c), RunRetention(c, old)
       PROVE  ClaimsInv'
  <2>1. \A a \in old : asset[a] \in AssetRow /\ a \in Rows
    BY RowTypes
  <2>2. RowsStay
    BY <1>17, <2>1 DEF RunRetention, RowsStay, Rows, Exists, AssetRow, Unused
  <2>3. \A p \in Op : OpStays(p)
    BY <1>17 DEF RunRetention, OpStays, Makes
  <2> QED
    BY <1>2, <1>17, <2>2, <2>3, OpsStay DEF RunRetention
<1>18. ASSUME NEW i \in Item, ItemMoves(i)
       PROVE  ClaimsInv'
  <2>1. \A p \in Op : OpStays(p)
    BY <1>18 DEF ItemMoves, OpStays, Makes
  <2> QED
    BY <1>1, <1>2, <1>18, <2>1, OpsStay DEF ItemMoves
<1> QED
  BY <1>4, <1>5, <1>6, <1>7, <1>8, <1>9, <1>10, <1>11, <1>12, <1>13, <1>14, <1>15,
     <1>16, <1>17, <1>18 DEF MediaNext, OpStep

----------------------------------------------------------------------------

LEMMA MediaInvStutter ==
  ASSUME MediaInv, UNCHANGED mediaVars
  PROVE  MediaInv'
  BY DEF MediaInv, MediaTypeOK, MakersAreReady, ClaimsInv, UrlsHaveOneClient,
         GroupsHaveOneClient, UnusedIsUnheld, HoldsUrl, HoldsGroup, Group, Rows,
         Exists, Makes, OpAt, mediaVars

LEMMA MediaStarts ==
  ASSUME MediaInit
  PROVE  MediaInv
<1>1. MediaTypeOK
  BY MediaAssumption DEF MediaInit, MediaTypeOK
<1>2. \A a \in Asset : ~Exists(a)
  BY DEF MediaInit, Exists, Unused
<1>3. \A o \in Op : ~Makes(o) /\ op[o].pc = "idle"
  BY DEF MediaInit, Makes, IdleOp
<1> QED
  BY <1>1, <1>2, <1>3
  DEF MediaInv, MakersAreReady, OpAt, ClaimsInv, UrlsHaveOneClient,
      GroupsHaveOneClient, UnusedIsUnheld, HoldsUrl, HoldsGroup, Group, Rows

\* The inductive invariant: types, and one client for every url and group that
\* a row or an operation in progress holds.
THEOREM MediaInvariance == MediaSpec => []MediaInv
<1>1. MediaInit => MediaInv
  BY MediaStarts
<1>2. MediaInv /\ [MediaNext]_mediaVars => MediaInv'
  <2> SUFFICES ASSUME MediaInv, [MediaNext]_mediaVars PROVE MediaInv'
    OBVIOUS
  <2>1. CASE MediaNext
    BY <2>1, TypesKept, MakersKept, ClaimsKept DEF MediaInv
  <2>2. CASE UNCHANGED mediaVars
    BY <2>2, MediaInvStutter
  <2> QED
    BY <2>1, <2>2
<1> QED
  BY <1>1, <1>2, PTL DEF MediaSpec

\* The types of the asset table, the storage and the operations.
THEOREM MediaTypeCorrect == MediaSpec => []MediaTypeOK
<1>1. MediaInv => MediaTypeOK
  BY DEF MediaInv
<1> QED
  BY <1>1, MediaInvariance, PTL

\* Brand assets do not leak: rows over one stored object, and rows of one
\* version group, are of one client, however generation, re-attachment and
\* purges interleave. (media/index.ts:57-62, creative/index.ts:114)
THEOREM AssetsStayWithClient == MediaSpec => []ReuseStaysWithClient
<1>1. MediaInv => ReuseStaysWithClient
  <2> SUFFICES ASSUME MediaInv, NEW a \in Rows, NEW b \in Rows,
                      \/ asset[a].url = asset[b].url /\ asset[a].url \in Blob
                      \/ asset[a].group = asset[b].group /\ asset[a].group # NoGroup
               PROVE  RowClient(a) = RowClient(b)
    BY DEF ReuseStaysWithClient, RowClient
  <2>1. /\ asset[a] \in AssetRow /\ asset[b] \in AssetRow
        /\ RowClient(a) \in Client /\ RowClient(b) \in Client
    BY RowTypes, MediaAssumption DEF MediaInv, AssetRow, RowClient
  <2>2. asset[a].group \in Asset \/ asset[a].group = NoGroup
    BY <2>1 DEF AssetRow
  <2> QED
    BY <2>1, <2>2, RowsHold DEF MediaInv, ClaimsInv, UrlsHaveOneClient, GroupsHaveOneClient
<1> QED
  BY <1>1, MediaInvariance, PTL

----------------------------------------------------------------------------
(* What the steps do to the locals of an operation.                         *)

OnlyMoves(o) == \A p \in Op : p # o => op'[p] = op[p]

\* An operation that goes on stays what it is; what makes a row keeps the item,
\* the bytes and the group it makes it of.
GoesOn(o) == ~Idle(o) /\ ~Idle(o)' /\ op'[o].kind = op[o].kind

KeepsRow(o) ==
  /\ GoesOn(o)
  /\ Makes(o)
  /\ op'[o].item = op[o].item
  /\ op'[o].hash = op[o].hash
  /\ op'[o].group = op[o].group

LEMMA BeginMoves ==
  ASSUME MediaTypeOK, NEW o \in Op, NEW locals, Begin(o, locals)
  PROVE  OnlyMoves(o) /\ op'[o] = locals /\ Idle(o) /\ clashes \subseteq clashes'
  BY DEF MediaTypeOK, Begin, OnlyMoves

LEMMA ContinueMoves ==
  ASSUME MediaTypeOK, NEW o \in Op, NEW locals, Continue(o, locals)
  PROVE  OnlyMoves(o) /\ op'[o] = locals /\ clashes' = clashes
  BY DEF MediaTypeOK, Continue, OnlyMoves

LEMMA MakerIs ==
  ASSUME MediaTypeOK, NEW o \in Op,
         op[o].pc \in {"findByHash", "put", "anchor", "version", "create"}
  PROVE  op[o] \in Making /\ Makes(o) /\ ~Idle(o)
  BY OpTypes DEF Making, Makes

LEMMA FindByHashMoves ==
  ASSUME MediaTypeOK, NEW o \in Op, FindByHash(o)
  PROVE  /\ OnlyMoves(o) /\ KeepsRow(o) /\ UNCHANGED <<asset, blob, clashes>>
         /\ \/ /\ op'[o].pc = "put"
               /\ op'[o].url = op[o].url
               /\ SameBytes(ClientOf[op[o].item], op[o].hash) = {}
            \/ /\ op'[o].pc = "create"
               /\ \E a \in SameBytes(ClientOf[op[o].item], op[o].hash) :
                    op'[o].url = asset[a].url
<1>0. op[o] \in Making /\ Makes(o) /\ ~Idle(o) /\ UNCHANGED <<asset, blob>>
  BY MakerIs DEF FindByHash, OpAt
<1>1. CASE /\ SameBytes(ClientOf[op[o].item], op[o].hash) = {}
           /\ Continue(o, [op[o] EXCEPT !.pc = "put"])
  <2>1. op'[o] = [op[o] EXCEPT !.pc = "put"] /\ OnlyMoves(o) /\ clashes' = clashes
    BY <1>1, ContinueMoves
  <2>2. KeepsRow(o) /\ op'[o].pc = "put" /\ op'[o].url = op[o].url
    BY <1>0, <2>1 DEF Making, KeepsRow, GoesOn, Idle, IdleOp
  <2> QED
    BY <1>0, <1>1, <2>1, <2>2
<1>2. ASSUME NEW a \in SameBytes(ClientOf[op[o].item], op[o].hash),
             Continue(o, [op[o] EXCEPT !.pc = "create", !.url = asset[a].url])
      PROVE  /\ OnlyMoves(o) /\ KeepsRow(o) /\ clashes' = clashes
             /\ op'[o].pc = "create" /\ op'[o].url = asset[a].url
  <2>1. /\ op'[o] = [op[o] EXCEPT !.pc = "create", !.url = asset[a].url]
        /\ OnlyMoves(o) /\ clashes' = clashes
    BY <1>2, ContinueMoves
  <2>2. KeepsRow(o) /\ op'[o].pc = "create" /\ op'[o].url = asset[a].url
    BY <1>0, <2>1 DEF Making, KeepsRow, GoesOn, Idle, IdleOp
  <2> QED
    BY <2>1, <2>2
<1> QED
  BY <1>0, <1>1, <1>2 DEF FindByHash

LEMMA PutMoves ==
  ASSUME MediaTypeOK, NEW o \in Op, NEW b \in Blob, Put(o, b)
  PROVE  /\ OnlyMoves(o) /\ KeepsRow(o) /\ UNCHANGED <<asset, clashes>>
         /\ blob' = [blob EXCEPT ![b] = "stored"]
         /\ OpAt(o, "put") /\ op'[o].pc = "create" /\ op'[o].url = b
<1>0. op[o] \in Making /\ Makes(o) /\ ~Idle(o)
  BY MakerIs DEF Put, OpAt
<1>1. /\ op'[o] = [op[o] EXCEPT !.pc = "create", !.url = b]
      /\ OnlyMoves(o) /\ clashes' = clashes
  BY ContinueMoves DEF Put
<1>2. KeepsRow(o) /\ op'[o].pc = "create" /\ op'[o].url = b
  BY <1>0, <1>1 DEF Making, KeepsRow, GoesOn, Idle, IdleOp
<1> QED
  BY <1>1, <1>2 DEF Put

LEMMA AnchorGroupMoves ==
  ASSUME MediaTypeOK, MakersAreReady, NEW o \in Op, AnchorGroup(o)
  PROVE  /\ OnlyMoves(o) /\ KeepsRow(o) /\ UNCHANGED <<blob, clashes>>
         /\ OpAt(o, "anchor") /\ op'[o].pc = "version" /\ op'[o].url = op[o].url
         /\ op[o].group \in Asset
         /\ asset' = IF Ungrouped(op[o].group)
                     THEN [asset EXCEPT ![op[o].group].group = op[o].group] ELSE asset
<1>0. op[o] \in Making /\ Makes(o) /\ ~Idle(o) /\ OpAt(o, "anchor")
  BY MakerIs DEF AnchorGroup, OpAt
<1>1. /\ op'[o] = [op[o] EXCEPT !.pc = "version"]
      /\ OnlyMoves(o) /\ clashes' = clashes
  BY ContinueMoves DEF AnchorGroup
<1>2. KeepsRow(o) /\ op'[o].pc = "version" /\ op'[o].url = op[o].url
  BY <1>0, <1>1 DEF Making, KeepsRow, GoesOn, Idle, IdleOp
<1>3. op[o].group = op[o].from /\ op[o].from \in Asset
  BY <1>0 DEF MakersAreReady
<1> QED
  BY <1>0, <1>1, <1>2, <1>3 DEF AnchorGroup, Ungrouped

LEMMA NextVersionMoves ==
  ASSUME MediaTypeOK, NEW o \in Op, NextVersion(o)
  PROVE  /\ OnlyMoves(o) /\ KeepsRow(o) /\ UNCHANGED <<asset, blob, clashes>>
         /\ OpAt(o, "version") /\ op'[o].pc = "create" /\ op'[o].url = op[o].url
         /\ \E v \in LatestVersion(op[o].group) : op'[o].version = v + 1
<1>0. op[o] \in Making /\ Makes(o) /\ ~Idle(o)
  BY MakerIs DEF NextVersion, OpAt
<1>1. PICK v \in LatestVersion(op[o].group) :
        Continue(o, [op[o] EXCEPT !.pc = "create", !.version = v + 1])
  BY DEF NextVersion
<1>2. /\ op'[o] = [op[o] EXCEPT !.pc = "create", !.version = v + 1]
      /\ OnlyMoves(o) /\ clashes' = clashes
  BY <1>1, ContinueMoves
<1>3. /\ KeepsRow(o) /\ op'[o].pc = "create" /\ op'[o].url = op[o].url
      /\ op'[o].version = v + 1
  BY <1>0, <1>2 DEF Making, KeepsRow, GoesOn, Idle, IdleOp
<1> QED
  BY <1>2, <1>3 DEF NextVersion

LEMMA PurgeMoves ==
  ASSUME MediaTypeOK, NEW o \in Op
  PROVE  /\ DeleteAssets(o) => /\ OnlyMoves(o) /\ GoesOn(o) /\ op[o].kind = "purge"
                               /\ op'[o].pc = "gc" /\ UNCHANGED <<blob, clashes>>
         /\ \A u : CountByUrl(o, u) =>
              /\ OnlyMoves(o) /\ GoesOn(o) /\ op[o].kind = "purge"
              /\ op'[o].pc = "gc" \/
                 (op'[o].pc = "unlink" /\ op'[o].url = u /\ ~Referenced(u))
              /\ UNCHANGED <<asset, blob, clashes>>
         /\ DeleteByUrl(o) => /\ OnlyMoves(o) /\ GoesOn(o) /\ op[o].kind = "purge"
                              /\ op'[o].pc = "gc" /\ UNCHANGED <<asset, clashes>>
<1>1. ASSUME op[o].pc \in {"delete", "gc", "unlink"}
      PROVE  op[o] \in Purging /\ ~Idle(o)
  BY <1>1, OpTypes DEF Idle, IdleOp
<1>2. ASSUME DeleteAssets(o)
      PROVE  /\ OnlyMoves(o) /\ GoesOn(o) /\ op[o].kind = "purge"
             /\ op'[o].pc = "gc" /\ UNCHANGED <<blob, clashes>>
  <2>1. op'[o] = [op[o] EXCEPT !.pc = "gc", !.ids = {}] /\ OnlyMoves(o) /\ clashes' = clashes
    BY <1>2, ContinueMoves DEF DeleteAssets
  <2>2. op[o] \in Purging /\ ~Idle(o)
    BY <1>1, <1>2 DEF DeleteAssets, OpAt
  <2>3. op[o].kind = "purge" /\ op'[o].kind = "purge" /\ op'[o].pc = "gc"
    BY <2>1, <2>2 DEF Purging
  <2> QED
    <3>1. GoesOn(o)
      BY <2>2, <2>3 DEF GoesOn, Idle, IdleOp
    <3>2. OnlyMoves(o) /\ clashes' = clashes
      BY <2>1
    <3> QED
      BY <1>2, <2>3, <3>1, <3>2 DEF DeleteAssets
<1>3. ASSUME NEW u, CountByUrl(o, u)
      PROVE  /\ OnlyMoves(o) /\ GoesOn(o) /\ op[o].kind = "purge"
             /\ op'[o].pc = "gc" \/
                (op'[o].pc = "unlink" /\ op'[o].url = u /\ ~Referenced(u))
             /\ UNCHANGED <<asset, blob, clashes>>
  <2>1. /\ op'[o] = [op[o] EXCEPT !.urls = @ \ {u},
                                  !.pc = IF Referenced(u) THEN "gc" ELSE "unlink",
                                  !.url = IF Referenced(u) THEN NoUrl ELSE u]
        /\ OnlyMoves(o) /\ clashes' = clashes
    BY <1>3, ContinueMoves DEF CountByUrl
  <2>2. op[o] \in Purging /\ ~Idle(o)
    BY <1>1, <1>3 DEF CountByUrl, OpAt
  <2>3. /\ op[o].kind = "purge" /\ op'[o].kind = "purge"
        /\ op'[o].pc = IF Referenced(u) THEN "gc" ELSE "unlink"
        /\ op'[o].url = IF Referenced(u) THEN NoUrl ELSE u
    BY <2>1, <2>2 DEF Purging
  <2> QED
    <3>1. GoesOn(o)
      BY <2>2, <2>3 DEF GoesOn, Idle, IdleOp
    <3>2. OnlyMoves(o) /\ clashes' = clashes
      BY <2>1
    <3> QED
      BY <1>3, <2>3, <3>1, <3>2 DEF CountByUrl
<1>4. ASSUME DeleteByUrl(o)
      PROVE  /\ OnlyMoves(o) /\ GoesOn(o) /\ op[o].kind = "purge"
             /\ op'[o].pc = "gc" /\ UNCHANGED <<asset, clashes>>
  <2>1. op'[o] = [op[o] EXCEPT !.pc = "gc", !.url = NoUrl] /\ OnlyMoves(o) /\ clashes' = clashes
    BY <1>4, ContinueMoves DEF DeleteByUrl
  <2>2. op[o] \in Purging /\ ~Idle(o)
    BY <1>1, <1>4 DEF DeleteByUrl, OpAt
  <2>3. op[o].kind = "purge" /\ op'[o].kind = "purge" /\ op'[o].pc = "gc"
    BY <2>1, <2>2 DEF Purging
  <2> QED
    <3>1. GoesOn(o)
      BY <2>2, <2>3 DEF GoesOn, Idle, IdleOp
    <3>2. OnlyMoves(o) /\ clashes' = clashes
      BY <2>1
    <3> QED
      BY <1>4, <2>3, <3>1, <3>2 DEF DeleteByUrl
<1> QED
  BY <1>2, <1>3, <1>4

\* Operation o ends.
Ends(o) == ~Idle(o) /\ OnlyMoves(o) /\ Idle(o)' /\ clashes' = clashes

\* Operation o begins, and the history notes what is running.
Begins(o) ==
  /\ OnlyMoves(o)
  /\ Idle(o)
  /\ ~Idle(o)'
  /\ clashes \subseteq clashes'
  /\ \A p \in Op : ~Idle(p) => {op'[o].kind, op[p].kind} \in clashes'

LEMMA BeginIs ==
  ASSUME MediaTypeOK, NEW o \in Op, NEW locals, locals.kind # "none", Begin(o, locals)
  PROVE  Begins(o) /\ op'[o] = locals
<1>1. OnlyMoves(o) /\ op'[o] = locals /\ Idle(o) /\ clashes \subseteq clashes'
  BY BeginMoves
<1>2. ~Idle(o)'
  BY <1>1 DEF Idle, IdleOp
<1>3. \A p \in Op : ~Idle(p) => {locals.kind, op[p].kind} \in clashes'
  BY DEF Begin
<1> QED
  BY <1>1, <1>2, <1>3 DEF Begins

LEMMA EndIs ==
  ASSUME MediaTypeOK, NEW o \in Op, PurgeDone(o) \/ OpDies(o) \/ \E a \in Asset : CreateAsset(o, a)
  PROVE  Ends(o)
<1>1. Continue(o, IdleOp)
  BY DEF PurgeDone, OpDies, CreateAsset, End
<1>2. ~Idle(o)
  BY DEF PurgeDone, OpDies, CreateAsset, OpAt, Idle, IdleOp
<1> QED
  BY <1>1, <1>2, ContinueMoves DEF Ends, Idle

\* The rows after a step are rows from before it; the others are deleted.
RowsFade ==
  /\ \A a \in Asset : /\ asset[a] = Deleted => asset'[a] = Deleted
                      /\ Exists(a) /\ ~Exists(a)' => asset'[a] = Deleted
  /\ \A a \in Rows' : /\ a \in Rows
                      /\ asset'[a].url = asset[a].url
                      /\ asset'[a].item = asset[a].item
                      /\ asset'[a].hash = asset[a].hash
                      /\ asset'[a].group = asset[a].group
                      /\ asset'[a].version = asset[a].version

LEMMA FadeSteps ==
  ASSUME MediaTypeOK
  PROVE  /\ UNCHANGED asset => RowsFade
         /\ \A a \in Asset, archived \in BOOLEAN : SetArchived(a, archived) => RowsFade
         /\ \A c \in Client : \A old \in SUBSET RowsOf(c) : RunRetention(c, old) => RowsFade
         /\ \A o \in Op : DeleteAssets(o) => RowsFade
<1>1. ASSUME UNCHANGED asset PROVE RowsFade
  BY <1>1 DEF RowsFade, Rows, Exists
<1>2. ASSUME NEW a \in Asset, NEW archived \in BOOLEAN, SetArchived(a, archived)
      PROVE  RowsFade
  <2>1. asset[a] \in AssetRow /\ a \in Rows
    BY <1>2, RowTypes DEF SetArchived, Rows
  <2>2. asset'[a] = [asset[a] EXCEPT !.state = IF archived THEN "archived" ELSE "live"]
    BY <1>2 DEF SetArchived, MediaTypeOK
  <2>3. /\ Exists(a)' /\ asset[a] # Deleted
        /\ asset'[a].url = asset[a].url /\ asset'[a].item = asset[a].item
        /\ asset'[a].hash = asset[a].hash /\ asset'[a].group = asset[a].group
        /\ asset'[a].version = asset[a].version
    BY <2>1, <2>2 DEF AssetRow, Exists, Deleted
  <2>4. \A x \in Asset : x # a => asset'[x] = asset[x]
    BY <1>2 DEF SetArchived, MediaTypeOK
  <2> QED
    BY <2>1, <2>3, <2>4 DEF RowsFade, Rows, Exists
<1>3. ASSUME NEW c \in Client, NEW old \in SUBSET RowsOf(c), RunRetention(c, old)
      PROVE  RowsFade
  <2>1. \A a \in old : asset[a] \in AssetRow /\ a \in Rows
    BY RowTypes
  <2>2. \A a \in Asset : asset'[a] = IF a \in old THEN [asset[a] EXCEPT !.state = "archived"]
                                     ELSE asset[a]
    BY <1>3 DEF RunRetention
  <2>3. \A a \in Asset : a \in old =>
          /\ Exists(a)' /\ asset[a] # Deleted
          /\ asset'[a].url = asset[a].url /\ asset'[a].item = asset[a].item
          /\ asset'[a].hash = asset[a].hash /\ asset'[a].group = asset[a].group
          /\ asset'[a].version = asset[a].version
    BY <2>1, <2>2 DEF AssetRow, Exists, Deleted
  <2>4. \A a \in Asset : a \notin old => asset'[a] = asset[a]
    BY <2>2
  <2> QED
    BY <2>1, <2>3, <2>4 DEF RowsFade, Rows, Exists
<1>4. ASSUME NEW o \in Op, DeleteAssets(o) PROVE RowsFade
  <2>1. \A a \in Asset : asset'[a] = Deleted \/ asset'[a] = asset[a]
    BY <1>4 DEF DeleteAssets
  <2>2. ~(Deleted.state \in {"live", "archived"})
    BY DEF Deleted
  <2> QED
    BY <2>1, <2>2 DEF RowsFade, Rows, Exists
<1> QED
  BY <1>1, <1>2, <1>3, <1>4

\* The table gains the row a.
Gains(a) ==
  /\ asset[a] = Unused
  /\ Exists(a)'
  /\ \A x \in Asset : x # a => asset'[x] = asset[x]

LEMMA CreateAssetMoves ==
  ASSUME MediaTypeOK, NEW o \in Op, NEW a \in Asset, CreateAsset(o, a)
  PROVE  /\ Gains(a) /\ Makes(o) /\ OpAt(o, "create") /\ UNCHANGED blob
         /\ asset'[a].url = op[o].url /\ asset'[a].item = op[o].item
         /\ asset'[a].hash = op[o].hash /\ asset'[a].group = op[o].group
         /\ asset'[a].version = op[o].version
<1>1. Makes(o) /\ OpAt(o, "create")
  BY MakerIs DEF CreateAsset, OpAt
<1>2. asset'[a] = NewRow(op[o].item, op[o].url,
                         IF op[o].kind = "generate" THEN "generated" ELSE "reused",
                         op[o].hash, op[o].group, op[o].version)
  BY DEF CreateAsset, MediaTypeOK
<1>3. asset[a] = Unused /\ \A x \in Asset : x # a => asset'[x] = asset[x]
  BY DEF CreateAsset, MediaTypeOK
<1> QED
  BY <1>1, <1>2, <1>3 DEF Gains, NewRow, Exists, CreateAsset

LEMMA PushAssetMoves ==
  ASSUME MediaTypeOK, NEW i \in Item, NEW a \in Asset, PushAsset(i, a)
  PROVE  /\ Gains(a) /\ UNCHANGED <<blob, op, clashes>>
         /\ asset'[a].url = External /\ asset'[a].item = i
         /\ asset'[a].hash = NoHash /\ asset'[a].group = NoGroup
<1>2. asset'[a] = NewRow(i, External, "upload", NoHash, NoGroup, 1)
  BY DEF PushAsset, MediaTypeOK
<1>3. asset[a] = Unused /\ \A x \in Asset : x # a => asset'[x] = asset[x]
  BY DEF PushAsset, MediaTypeOK
<1> QED
  BY <1>2, <1>3 DEF Gains, NewRow, Exists, PushAsset

LEMMA GainedRows ==
  ASSUME MediaTypeOK, NEW a \in Asset, Gains(a)
  PROVE  /\ Rows' = Rows \cup {a}
         /\ a \notin Rows
         /\ \A x \in Rows : asset'[x] = asset[x]
         /\ \A x \in Rows : x # a /\ x \in Asset
  BY DEF Gains, Rows, Exists, Unused

LEMMA GenerateMoves ==
  ASSUME MediaTypeOK, NEW o \in Op, NEW i \in Item
  PROVE  /\ \A h \in Bytes : GenerateImage(o, i, h) =>
              Begins(o) /\ op'[o] = Generating(i, h, "findByHash") /\ UNCHANGED <<asset, blob>>
         /\ ProduceVideo(o, i) =>
              Begins(o) /\ op'[o] = Generating(i, NoHash, "put") /\ UNCHANGED <<asset, blob>>
<1>1. \A h, pc : Generating(i, h, pc).kind # "none"
  BY DEF Generating
<1> QED
  BY <1>1, BeginIs DEF GenerateImage, ProduceVideo

LEMMA ReattachMoves ==
  ASSUME MediaTypeOK, NEW o \in Op, NEW a \in Asset, NEW i \in Item, Reattach(o, a, i)
  PROVE  /\ Begins(o) /\ UNCHANGED <<asset, blob>>
         /\ a \in Rows /\ ClientOf[asset[a].item] = ClientOf[i]
         /\ op'[o].kind = "reattach" /\ op'[o].item = i
         /\ op'[o].url = asset[a].url /\ op'[o].hash = asset[a].hash
         /\ \/ asset[a].group # NoGroup /\ op'[o].pc = "version" /\ op'[o].group = asset[a].group
            \/ asset[a].group = NoGroup /\ op'[o].pc = "anchor" /\ op'[o].group = a
<1> DEFINE anchored == asset[a].group # NoGroup
<1>1. PICK locals : locals = [kind |-> "reattach",
                              pc |-> IF anchored THEN "version" ELSE "anchor",
                              from |-> a, item |-> i, url |-> asset[a].url,
                              hash |-> asset[a].hash,
                              group |-> IF anchored THEN asset[a].group ELSE a,
                              version |-> 1]
  OBVIOUS
<1>2. Begin(o, locals)
  BY <1>1 DEF Reattach
<1>3. locals.kind # "none"
  BY <1>1
<1>4. Begins(o) /\ op'[o] = locals
  BY <1>2, <1>3, BeginIs
<1>5. a \in Rows /\ ClientOf[asset[a].item] = ClientOf[i]
  BY DEF Reattach, MayReuse, Rows
<1> QED
  BY <1>1, <1>4, <1>5 DEF Reattach

LEMMA FindPurgeableMoves ==
  ASSUME MediaTypeOK, NEW o \in Op, NEW c \in Client, NEW old \in SUBSET RowsOf(c),
         FindPurgeable(o, c, old)
  PROVE  /\ Begins(o) /\ UNCHANGED <<asset, blob>>
         /\ op'[o].kind = "purge" /\ op'[o].pc = "delete"
<1>1. PICK locals : locals = [kind |-> "purge", pc |-> "delete", ids |-> old,
                              urls |-> {asset[a].url : a \in old}, url |-> NoUrl]
  OBVIOUS
<1>2. Begin(o, locals)
  BY <1>1 DEF FindPurgeable
<1>3. locals.kind # "none"
  BY <1>1
<1>4. Begins(o) /\ op'[o] = locals
  BY <1>2, <1>3, BeginIs
<1> QED
  BY <1>1, <1>4 DEF FindPurgeable

\* Anchoring a group gives its original the group and nothing else.
LEMMA AnchoredRows ==
  ASSUME MediaTypeOK, NEW g \in Asset,
         asset' = IF Ungrouped(g) THEN [asset EXCEPT ![g].group = g] ELSE asset
  PROVE  /\ \A x \in Asset : x # g => asset'[x] = asset[x]
         /\ asset[g] = Deleted => asset'[g] = Deleted
         /\ Exists(g) => asset'[g].group = IF asset[g].group = NoGroup THEN g ELSE asset[g].group
         /\ Rows' = Rows
         /\ \A x \in Rows' : /\ x \in Rows
                             /\ asset'[x].url = asset[x].url
                             /\ asset'[x].item = asset[x].item
                             /\ asset'[x].hash = asset[x].hash
                             /\ asset'[x].version = asset[x].version
<1>1. CASE Ungrouped(g)
  <2>1. asset[g] \in AssetRow
    BY <1>1, RowTypes DEF Ungrouped, Rows
  <2>2. asset'[g] = [asset[g] EXCEPT !.group = g] /\ \A x \in Asset : x # g => asset'[x] = asset[x]
    BY <1>1 DEF MediaTypeOK
  <2>3. /\ asset'[g].url = asset[g].url
        /\ asset'[g].item = asset[g].item
        /\ asset'[g].hash = asset[g].hash
        /\ asset'[g].version = asset[g].version
        /\ asset'[g].state = asset[g].state
        /\ asset'[g].group = g
        /\ asset[g] # Deleted
    BY <2>1, <2>2 DEF AssetRow, Deleted
  <2> QED
    BY <1>1, <2>2, <2>3 DEF Rows, Exists, Ungrouped
<1>2. CASE ~Ungrouped(g)
  BY <1>2 DEF Rows, Exists, Ungrouped
<1> QED
  BY <1>1, <1>2

----------------------------------------------------------------------------
(* What runs together is known, and generated rows have no group.           *)

LEMMA OverlapsStep ==
  ASSUME OverlapsAreKnown, NEW o \in Op,
         \/ Begins(o)
         \/ Ends(o)
         \/ OnlyMoves(o) /\ GoesOn(o) /\ clashes' = clashes
  PROVE  OverlapsAreKnown' /\ clashes \subseteq clashes'
<1>1. \A p \in Op : p # o => op'[p] = op[p]
  BY DEF Begins, Ends, OnlyMoves
<1>2. CASE Begins(o)
  <2>1. \A p \in Op : p # o => (~Idle(p)' => ~Idle(p))
    BY <1>1 DEF Idle
  <2>2. \A p \in Op : p # o /\ ~Idle(p)' =>
          /\ {op'[o].kind, op'[p].kind} \in clashes'
          /\ {op'[p].kind, op'[o].kind} \in clashes'
    BY <1>1, <1>2, <2>1 DEF Begins
  <2> QED
    BY <1>1, <1>2, <2>1, <2>2 DEF OverlapsAreKnown, Begins
<1>3. CASE Ends(o)
  BY <1>1, <1>3 DEF OverlapsAreKnown, Ends, Idle
<1>4. CASE OnlyMoves(o) /\ GoesOn(o) /\ clashes' = clashes
  BY <1>1, <1>4 DEF OverlapsAreKnown, GoesOn, Idle
<1> QED
  BY <1>2, <1>3, <1>4

\* Group and position of operation o fit its kind.
Fits(o) ==
  /\ op[o].kind = "generate" => op[o].group = NoGroup
  /\ op[o].kind = "reattach" =>
       op[o].group \in Asset /\ op[o].pc \in {"anchor", "version", "create"}

LEMMA OverlapsKept ==
  ASSUME MediaTypeOK, MakersAreReady, OverlapsAreKnown, MakersFitTheirKind, MediaNext
  PROVE  OverlapsAreKnown' /\ clashes \subseteq clashes' /\ MakersFitTheirKind'
<1> DEFINE Goal == OverlapsAreKnown' /\ clashes \subseteq clashes' /\ MakersFitTheirKind'
<1> SUFFICES Goal
  OBVIOUS
<1>1. ASSUME UNCHANGED op, clashes \subseteq clashes'
      PROVE  Goal
  BY <1>1 DEF OverlapsAreKnown, MakersFitTheirKind, Idle
<1>2. ASSUME NEW o \in Op, OnlyMoves(o),
             \/ Begins(o)
             \/ Ends(o)
             \/ GoesOn(o) /\ clashes' = clashes,
             Fits(o)'
      PROVE  Goal
  BY <1>2, OverlapsStep DEF MakersFitTheirKind, Fits, OnlyMoves
<1>3. ASSUME NEW o \in Op, OnlyMoves(o), KeepsRow(o), clashes' = clashes,
             op'[o].kind = "reattach" => op'[o].pc \in {"anchor", "version", "create"}
      PROVE  Goal
  <2>1. Fits(o)'
    BY <1>3 DEF KeepsRow, GoesOn, MakersFitTheirKind, Fits
  <2> QED
    BY <1>2, <1>3, <2>1 DEF KeepsRow
<1>4. ASSUME NEW o \in Op, Begins(o), Fits(o)'
      PROVE  Goal
  BY <1>2, <1>4 DEF Begins
<1>5. ASSUME NEW o \in Op, OnlyMoves(o), GoesOn(o), op[o].kind = "purge", clashes' = clashes
      PROVE  Goal
  BY <1>2, <1>5 DEF GoesOn, Fits
<1>6. ASSUME NEW o \in Op, NEW i \in Item, NEW h \in Bytes, GenerateImage(o, i, h)
      PROVE  Goal
  <2>1. Begins(o) /\ op'[o] = Generating(i, h, "findByHash")
    BY <1>6, GenerateMoves
  <2> QED
    BY <1>4, <2>1 DEF Generating, Fits
<1>7. ASSUME NEW o \in Op, NEW i \in Item, ProduceVideo(o, i)
      PROVE  Goal
  <2>1. Begins(o) /\ op'[o] = Generating(i, NoHash, "put")
    BY <1>7, GenerateMoves
  <2> QED
    BY <1>4, <2>1 DEF Generating, Fits
<1>8. ASSUME NEW o \in Op,
             \/ FindByHash(o) \/ AnchorGroup(o) \/ NextVersion(o)
             \/ \E b \in Blob : Put(o, b)
      PROVE  Goal
  <2>1. /\ OnlyMoves(o) /\ KeepsRow(o) /\ clashes' = clashes
        /\ op'[o].pc \in {"version", "create"} \/ (FindByHash(o) /\ op'[o].pc = "put")
    BY <1>8, FindByHashMoves, AnchorGroupMoves, NextVersionMoves, PutMoves
  <2>2. FindByHash(o) => op[o].kind # "reattach"
    BY DEF FindByHash, OpAt, MakersFitTheirKind
  <2> QED
    BY <1>3, <2>1, <2>2 DEF KeepsRow, GoesOn
<1>9. ASSUME NEW o \in Op,
             PurgeDone(o) \/ OpDies(o) \/ \E a \in Asset : CreateAsset(o, a)
      PROVE  Goal
  <2>1. Ends(o)
    BY <1>9, EndIs
  <2>2. Fits(o)'
    BY <2>1 DEF Ends, Idle, IdleOp, Fits
  <2> QED
    BY <1>2, <2>1, <2>2 DEF Ends
<1>10. ASSUME NEW o \in Op, NEW a \in Asset, NEW i \in Item, Reattach(o, a, i)
      PROVE  Goal
  <2>1. Begins(o) /\ op'[o].kind = "reattach" /\ op'[o].pc \in {"version", "anchor"}
    BY <1>10, ReattachMoves
  <2>2. op'[o].group \in Asset
    BY <1>10, ReattachMoves, RowTypes DEF AssetRow
  <2> QED
    BY <1>4, <2>1, <2>2 DEF Fits
<1>11. ASSUME NEW o \in Op, NEW c \in Client, NEW old \in SUBSET RowsOf(c),
             FindPurgeable(o, c, old)
      PROVE  Goal
  <2>1. Begins(o) /\ op'[o].kind = "purge"
    BY <1>11, FindPurgeableMoves
  <2> QED
    BY <1>4, <2>1 DEF Fits
<1>12. ASSUME NEW o \in Op,
             DeleteAssets(o) \/ DeleteByUrl(o) \/ \E u \in Url : CountByUrl(o, u)
      PROVE  Goal
  BY <1>5, <1>12, PurgeMoves
<1>13. CASE \/ \E i \in Item, a \in Asset : PushAsset(i, a)
            \/ \E a \in Asset, archived \in BOOLEAN : SetArchived(a, archived)
            \/ \E c \in Client : \E old \in SUBSET RowsOf(c) : RunRetention(c, old)
            \/ \E i \in Item : ItemMoves(i)
  <2>1. UNCHANGED op /\ clashes \subseteq clashes'
    BY <1>13 DEF PushAsset, SetArchived, RunRetention, ItemMoves
  <2> QED
    BY <1>1, <2>1
<1> QED
  BY <1>6, <1>7, <1>8, <1>9, <1>10, <1>11, <1>12, <1>13 DEF MediaNext, OpStep

----------------------------------------------------------------------------
(* No purge takes an object away from what is over it.                      *)

\* While purges have run apart, none is in progress next to what makes a row.
LEMMA PurgesAreApart ==
  ASSUME MediaTypeOK, OverlapsAreKnown, PurgesRunApart, NEW o \in Op, NEW p \in Op,
         op[o].kind = "purge", Makes(p)
  PROVE  FALSE
<1>1. o # p /\ ~Idle(o) /\ ~Idle(p)
  BY OpTypes DEF Makes
<1>2. {"purge", op[p].kind} \in clashes
  BY <1>1 DEF OverlapsAreKnown
<1> QED
  BY <1>2 DEF PurgesRunApart, Makes

\* A step of o that leaves every object and gives no row another one.
LEMMA ObjectsStep ==
  ASSUME ObjectsAreSafe, PurgesRunApart' => PurgesRunApart,
         NEW o \in Op, OnlyMoves(o),
         \A u \in Blob : blob[u] = "stored" => blob'[u] = "stored",
         \A a \in Rows' : a \in Rows /\ asset'[a].url = asset[a].url,
         ObjectsAreSafe /\ PurgesRunApart => ObjectIsSafe(o)'
  PROVE  ObjectsAreSafe'
<1> SUFFICES ASSUME PurgesRunApart' 
             PROVE  /\ \A a \in Rows' : Intact(asset[a].url)'
                    /\ \A p \in Op : ObjectIsSafe(p)'
  BY DEF ObjectsAreSafe
<1>1. /\ \A a \in Rows : Intact(asset[a].url)
      /\ \A p \in Op : ObjectIsSafe(p)
  BY DEF ObjectsAreSafe
<1>2. \A u : Intact(u) => Intact(u)'
  BY DEF Intact
<1>3. \A a \in Rows' : Intact(asset[a].url)'
  BY <1>1 DEF Intact
<1>4. \A u : ~Referenced(u) => ~Referenced(u)'
  BY DEF Referenced
<1>5. \A p \in Op : p # o => ObjectIsSafe(p)'
  BY <1>1, <1>2, <1>4 DEF ObjectIsSafe, OnlyMoves, Makes, OpAt, Intact
<1> QED
  BY <1>3, <1>5

LEMMA ObjectsKept ==
  ASSUME MediaTypeOK, MakersAreReady, OverlapsAreKnown, ObjectsAreSafe,
         clashes \subseteq clashes', MediaNext
  PROVE  ObjectsAreSafe'
<1>0. /\ PurgesRunApart' => PurgesRunApart
      /\ NoUrl \notin Blob /\ External \notin Blob
  BY MediaAssumption DEF PurgesRunApart
<1>1. ASSUME NEW o \in Op, OnlyMoves(o), UNCHANGED <<asset, blob>>,
             ObjectsAreSafe /\ PurgesRunApart => ObjectIsSafe(o)'
      PROVE  ObjectsAreSafe'
  <2>1. \A a \in Rows' : a \in Rows /\ asset'[a].url = asset[a].url
    BY <1>1 DEF Rows, Exists
  <2>2. \A u \in Blob : blob[u] = "stored" => blob'[u] = "stored"
    BY <1>1
  <2> QED
    BY <1>0, <1>1, <2>1, <2>2, ObjectsStep
<1>2. ASSUME UNCHANGED <<op, blob>>, RowsFade
      PROVE  ObjectsAreSafe'
  <2>1. \A a \in Rows' : a \in Rows /\ asset'[a].url = asset[a].url
    BY <1>2 DEF RowsFade
  <2>2. \A u : ~Referenced(u) => ~Referenced(u)'
    BY <2>1 DEF Referenced
  <2>3. \A u : Intact(u) => Intact(u)'
    BY <1>2 DEF Intact
  <2> QED
    BY <1>0, <1>2, <2>1, <2>2, <2>3 DEF ObjectsAreSafe, ObjectIsSafe, Makes, OpAt, Intact
<1>3. ASSUME NEW o \in Op, NEW i \in Item, NEW h \in Bytes, GenerateImage(o, i, h)
      PROVE  ObjectsAreSafe'
  <2>1. Begins(o) /\ op'[o] = Generating(i, h, "findByHash") /\ UNCHANGED <<asset, blob>>
    BY <1>3, GenerateMoves
  <2>2. ObjectIsSafe(o)'
    BY <1>0, <2>1 DEF Generating, ObjectIsSafe, Intact, OpAt
  <2> QED
    BY <1>1, <2>1, <2>2 DEF Begins
<1>4. ASSUME NEW o \in Op, NEW i \in Item, ProduceVideo(o, i)
      PROVE  ObjectsAreSafe'
  <2>1. Begins(o) /\ op'[o] = Generating(i, NoHash, "put") /\ UNCHANGED <<asset, blob>>
    BY <1>4, GenerateMoves
  <2>2. ObjectIsSafe(o)'
    BY <1>0, <2>1 DEF Generating, ObjectIsSafe, Intact, OpAt
  <2> QED
    BY <1>1, <2>1, <2>2 DEF Begins
<1>5. ASSUME NEW o \in Op, FindByHash(o)
      PROVE  ObjectsAreSafe'
  <2>1. /\ OnlyMoves(o) /\ KeepsRow(o) /\ UNCHANGED <<asset, blob>>
        /\ op'[o].pc \in {"put", "create"}
        /\ op'[o].url = op[o].url \/ \E a \in Rows : op'[o].url = asset[a].url
    BY <1>5, FindByHashMoves DEF SameBytes, RowsOf
  <2>2. ASSUME ObjectsAreSafe, PurgesRunApart PROVE ObjectIsSafe(o)'
    <3>1. Intact(op'[o].url)
      BY <2>1, <2>2 DEF ObjectsAreSafe, ObjectIsSafe, KeepsRow
    <3> QED
      BY <2>1, <3>1 DEF ObjectIsSafe, Intact, OpAt
  <2> QED
    BY <1>1, <2>1, <2>2
<1>6. ASSUME NEW o \in Op, NEW b \in Blob, Put(o, b)
      PROVE  ObjectsAreSafe'
  <2>1. /\ OnlyMoves(o) /\ UNCHANGED asset /\ blob' = [blob EXCEPT ![b] = "stored"]
        /\ op'[o].pc = "create" /\ op'[o].url = b
    BY <1>6, PutMoves
  <2>2. blob'[b] = "stored" /\ \A u \in Blob : blob[u] = "stored" => blob'[u] = "stored"
    BY <2>1 DEF MediaTypeOK
  <2>3. ObjectIsSafe(o)'
    BY <2>1, <2>2 DEF ObjectIsSafe, Intact, OpAt
  <2>4. \A a \in Rows' : a \in Rows /\ asset'[a].url = asset[a].url
    BY <2>1 DEF Rows, Exists
  <2> QED
    BY <1>0, <2>1, <2>2, <2>3, <2>4, ObjectsStep
<1>7. ASSUME NEW o \in Op, NEW a \in Asset, CreateAsset(o, a)
      PROVE  ObjectsAreSafe'
  <2> SUFFICES ASSUME PurgesRunApart'
               PROVE  /\ \A x \in Rows' : Intact(asset[x].url)'
                      /\ \A p \in Op : ObjectIsSafe(p)'
    BY DEF ObjectsAreSafe
  <2>1. /\ \A x \in Rows : Intact(asset[x].url)
        /\ \A p \in Op : ObjectIsSafe(p)
    BY <1>0 DEF ObjectsAreSafe
  <2>2. /\ Gains(a) /\ Makes(o) /\ UNCHANGED blob /\ asset'[a].url = op[o].url
        /\ Ends(o) /\ OnlyMoves(o) /\ op'[o] = IdleOp
    BY <1>7, CreateAssetMoves, EndIs DEF Ends, Idle
  <2>3. \A x \in Rows' : Intact(asset[x].url)'
    BY <2>1, <2>2, GainedRows DEF ObjectIsSafe, Intact
  <2>4. ObjectIsSafe(o)'
    BY <2>2 DEF ObjectIsSafe, Makes, OpAt, IdleOp
  <2>5. ASSUME NEW p \in Op, p # o
        PROVE  ObjectIsSafe(p)'
    <3>1. op'[p] = op[p] /\ ObjectIsSafe(p)
      BY <2>1, <2>2, <2>5 DEF OnlyMoves
    <3>2. Makes(p) => Intact(op[p].url)'
      BY <2>2, <3>1 DEF ObjectIsSafe, Intact
    <3>3. ~OpAt(p, "unlink")
      <4>1. OpAt(p, "unlink") => op[p].kind = "purge"
        BY OpTypes DEF OpAt, Purging
      <4> QED
        BY <1>0, <2>2, <4>1, PurgesAreApart
    <3> QED
      BY <3>1, <3>2, <3>3 DEF ObjectIsSafe, Makes, OpAt, Intact
  <2> QED
    BY <2>3, <2>4, <2>5
<1>8. ASSUME NEW o \in Op, NEW a \in Asset, NEW i \in Item, Reattach(o, a, i)
      PROVE  ObjectsAreSafe'
  <2>1. /\ Begins(o) /\ UNCHANGED <<asset, blob>> /\ a \in Rows
        /\ op'[o].url = asset[a].url /\ op'[o].pc \in {"version", "anchor"}
    BY <1>8, ReattachMoves
  <2>2. ASSUME ObjectsAreSafe, PurgesRunApart PROVE ObjectIsSafe(o)'
    BY <2>1, <2>2 DEF ObjectsAreSafe, ObjectIsSafe, Intact, OpAt
  <2> QED
    BY <1>1, <2>1, <2>2 DEF Begins
<1>9. ASSUME NEW o \in Op, AnchorGroup(o)
      PROVE  ObjectsAreSafe'
  <2>1. /\ OnlyMoves(o) /\ KeepsRow(o) /\ UNCHANGED blob
        /\ op'[o].pc = "version" /\ op'[o].url = op[o].url /\ op[o].group \in Asset
        /\ asset' = IF Ungrouped(op[o].group)
                    THEN [asset EXCEPT ![op[o].group].group = op[o].group] ELSE asset
    BY <1>9, AnchorGroupMoves
  <2>2. \A x \in Rows' : x \in Rows /\ asset'[x].url = asset[x].url
    BY <2>1, AnchoredRows
  <2>3. ASSUME ObjectsAreSafe, PurgesRunApart PROVE ObjectIsSafe(o)'
    BY <2>1, <2>3 DEF ObjectsAreSafe, ObjectIsSafe, Intact, OpAt, KeepsRow
  <2> QED
    BY <1>0, <2>1, <2>2, <2>3, ObjectsStep
<1>10. ASSUME NEW o \in Op, NextVersion(o)
      PROVE  ObjectsAreSafe'
  <2>1. /\ OnlyMoves(o) /\ KeepsRow(o) /\ UNCHANGED <<asset, blob>>
        /\ op'[o].pc = "create" /\ op'[o].url = op[o].url
    BY <1>10, NextVersionMoves
  <2>2. ASSUME ObjectsAreSafe, PurgesRunApart PROVE ObjectIsSafe(o)'
    BY <2>1, <2>2 DEF ObjectsAreSafe, ObjectIsSafe, Intact, OpAt, KeepsRow
  <2> QED
    BY <1>1, <2>1, <2>2
<1>11. ASSUME NEW o \in Op, NEW c \in Client, NEW old \in SUBSET RowsOf(c),
              FindPurgeable(o, c, old)
       PROVE  ObjectsAreSafe'
  <2>1. /\ Begins(o) /\ UNCHANGED <<asset, blob>>
        /\ op'[o].kind = "purge" /\ op'[o].pc = "delete"
    BY <1>11, FindPurgeableMoves
  <2>2. ObjectIsSafe(o)'
    BY <2>1 DEF ObjectIsSafe, Makes, OpAt
  <2> QED
    BY <1>1, <2>1, <2>2 DEF Begins
<1>12. ASSUME NEW o \in Op, DeleteAssets(o)
       PROVE  ObjectsAreSafe'
  <2>1. /\ OnlyMoves(o) /\ op'[o].kind = "purge" /\ op'[o].pc = "gc" /\ UNCHANGED blob
    BY <1>12, PurgeMoves DEF GoesOn
  <2>2. RowsFade
    BY <1>12, FadeSteps
  <2>3. ObjectIsSafe(o)'
    BY <2>1 DEF ObjectIsSafe, Makes, OpAt
  <2>4. \A a \in Rows' : a \in Rows /\ asset'[a].url = asset[a].url
    BY <2>2 DEF RowsFade
  <2> QED
    BY <1>0, <2>1, <2>3, <2>4, ObjectsStep
<1>13. ASSUME NEW o \in Op, NEW u \in Url, CountByUrl(o, u)
       PROVE  ObjectsAreSafe'
  <2>1. /\ OnlyMoves(o) /\ op'[o].kind = "purge" /\ UNCHANGED <<asset, blob>>
        /\ op'[o].pc = "gc" \/ (op'[o].pc = "unlink" /\ op'[o].url = u /\ ~Referenced(u))
    BY <1>13, PurgeMoves DEF GoesOn
  <2>2. ~Referenced(u) => ~Referenced(u)'
    BY <2>1 DEF Referenced, Rows, Exists
  <2>3. ObjectIsSafe(o)'
    BY <2>1, <2>2 DEF ObjectIsSafe, Makes, OpAt, Referenced
  <2> QED
    BY <1>1, <2>1, <2>3
<1>14. ASSUME NEW o \in Op, DeleteByUrl(o)
       PROVE  ObjectsAreSafe'
  <2> SUFFICES ASSUME PurgesRunApart'
               PROVE  /\ \A x \in Rows' : Intact(asset[x].url)'
                      /\ \A p \in Op : ObjectIsSafe(p)'
    BY DEF ObjectsAreSafe
  <2>1. /\ \A x \in Rows : Intact(asset[x].url)
        /\ \A p \in Op : ObjectIsSafe(p)
    BY <1>0 DEF ObjectsAreSafe
  <2>2. /\ OnlyMoves(o) /\ op[o].kind = "purge" /\ op'[o].kind = "purge"
        /\ op'[o].pc = "gc" /\ UNCHANGED asset /\ OpAt(o, "unlink")
    BY <1>14, PurgeMoves DEF GoesOn, DeleteByUrl
  <2>3. /\ Rows' = Rows
        /\ \A u : ~Referenced(u) => ~Referenced(u)'
    BY <2>2 DEF Rows, Exists, Referenced
  <2>4. \A u \in Blob : u # op[o].url => blob'[u] = blob[u]
    BY <1>14 DEF DeleteByUrl, MediaTypeOK
  <2>5. op[o].url \in Blob => ~Referenced(op[o].url)
    BY <2>1, <2>2 DEF ObjectIsSafe
  <2>6. \A x \in Rows' : Intact(asset[x].url)'
    BY <2>1, <2>2, <2>3, <2>4, <2>5 DEF Intact, Referenced
  <2>7. ObjectIsSafe(o)'
    BY <2>2 DEF ObjectIsSafe, Makes, OpAt
  <2>8. ASSUME NEW p \in Op, p # o
        PROVE  ObjectIsSafe(p)'
    <3>1. op'[p] = op[p] /\ ObjectIsSafe(p)
      BY <2>1, <2>2, <2>8 DEF OnlyMoves
    <3>2. ~Makes(p)
      BY <1>0, <2>2, PurgesAreApart
    <3> QED
      BY <2>3, <3>1, <3>2 DEF ObjectIsSafe, Makes, OpAt, Referenced
  <2> QED
    BY <2>6, <2>7, <2>8
<1>15. ASSUME NEW o \in Op, PurgeDone(o) \/ OpDies(o)
       PROVE  ObjectsAreSafe'
  <2>1. OnlyMoves(o) /\ op'[o] = IdleOp /\ UNCHANGED <<asset, blob>>
    BY <1>15, EndIs DEF Ends, Idle, PurgeDone, OpDies
  <2>2. ObjectIsSafe(o)'
    BY <2>1 DEF ObjectIsSafe, Makes, OpAt, IdleOp
  <2> QED
    BY <1>1, <2>1, <2>2
<1>16. ASSUME NEW i \in Item, NEW a \in Asset, PushAsset(i, a)
       PROVE  ObjectsAreSafe'
  <2>1. Gains(a) /\ UNCHANGED <<blob, op, clashes>> /\ asset'[a].url = External
    BY <1>16, PushAssetMoves
  <2>2. /\ Rows' = Rows \cup {a}
        /\ \A x \in Rows : asset'[x] = asset[x]
    BY <2>1, GainedRows
  <2>3. \A u \in Blob : ~Referenced(u) => ~Referenced(u)'
    BY <1>0, <2>1, <2>2 DEF Referenced
  <2>4. ObjectsAreSafe => (PurgesRunApart' => \A x \in Rows' : Intact(asset[x].url)')
    BY <1>0, <2>1, <2>2 DEF ObjectsAreSafe, Intact
  <2>5. \A p \in Op : ObjectIsSafe(p) => ObjectIsSafe(p)'
    BY <2>1, <2>3 DEF ObjectIsSafe, Makes, OpAt, Intact
  <2> QED
    BY <1>0, <2>4, <2>5 DEF ObjectsAreSafe
<1>17. CASE \/ \E a \in Asset, archived \in BOOLEAN : SetArchived(a, archived)
            \/ \E c \in Client : \E old \in SUBSET RowsOf(c) : RunRetention(c, old)
            \/ \E i \in Item : ItemMoves(i)
  <2>1. RowsFade /\ UNCHANGED <<op, blob>>
    BY <1>17, FadeSteps DEF SetArchived, RunRetention, ItemMoves
  <2> QED
    BY <1>2, <2>1
<1> QED
  BY <1>3, <1>4, <1>5, <1>6, <1>7, <1>8, <1>9, <1>10, <1>11, <1>12, <1>13, <1>14,
     <1>15, <1>16, <1>17 DEF MediaNext, OpStep

----------------------------------------------------------------------------
(* Versions.                                                                *)

LEMMA ReattachmentsAreApart ==
  ASSUME OverlapsAreKnown, {"reattach"} \notin clashes, NEW o \in Op, NEW p \in Op,
         op[o].kind = "reattach", op[p].kind = "reattach"
  PROVE  o = p
<1> SUFFICES ASSUME o # p PROVE FALSE
  OBVIOUS
<1>1. ~Idle(o) /\ ~Idle(p)
  BY DEF Idle, IdleOp
<1>2. {op[o].kind, op[p].kind} \in clashes
  BY <1>1 DEF OverlapsAreKnown
<1>3. {op[o].kind, op[p].kind} = {"reattach"}
  OBVIOUS
<1> QED
  BY <1>2, <1>3

\* The originals of groups stay, or are deleted.
OriginalsStay ==
  \A g \in Asset : /\ Founded(g) => Founded(g)'
                   /\ Founded(g) \/ Ungrouped(g) => Founded(g)' \/ Ungrouped(g)'

LEMMA FadingOriginals ==
  ASSUME RowsFade
  PROVE  /\ OriginalsStay
         /\ \A a \in Rows' : /\ a \in Rows
                             /\ asset'[a].group = asset[a].group
                             /\ asset'[a].version = asset[a].version
<1>1. \A g \in Asset : /\ asset[g] = Deleted => asset'[g] = Deleted
                       /\ Exists(g) => asset'[g] = Deleted \/
                                       (Exists(g)' /\ asset'[g].group = asset[g].group)
  BY DEF RowsFade, Rows
<1>2. OriginalsStay
  BY <1>1 DEF OriginalsStay, Founded, Ungrouped
<1> QED
  BY <1>2 DEF RowsFade

LEMMA GainedOriginals ==
  ASSUME MediaTypeOK, NEW a \in Asset, Gains(a)
  PROVE  OriginalsStay /\ ~Founded(a) /\ ~Ungrouped(a)
<1>1. ~Founded(a) /\ ~Ungrouped(a)
  BY DEF Gains, Founded, Ungrouped, Exists, Unused, Deleted
<1>2. \A g \in Asset : g # a => asset'[g] = asset[g]
  BY DEF Gains
<1> QED
  BY <1>1, <1>2 DEF OriginalsStay, Founded, Ungrouped, Exists

LEMMA VersionStays ==
  ASSUME OriginalsStay, MakersFitTheirKind, NEW p \in Op, op'[p] = op[p], VersionIsNext(p),
         op[p].kind = "reattach" =>
           \A a \in Group(op[p].group)' :
             a \in Group(op[p].group) /\ asset'[a].version = asset[a].version
  PROVE  VersionIsNext(p)'
<1> SUFFICES ASSUME op[p].kind = "reattach"
             PROVE  VersionIsNext(p)'
  BY DEF VersionIsNext
<1>1. op[p].group \in Asset
  BY DEF MakersFitTheirKind
<1>2. OpAt(p, "create")' =>
        \A a \in Group(op[p].group)' : asset'[a].version < op'[p].version
  BY DEF VersionIsNext, OpAt
<1>3. /\ OpAt(p, "anchor")' => Founded(op[p].group)' \/ Ungrouped(op[p].group)'
      /\ op'[p].pc \in {"version", "create"} => Founded(op[p].group)'
  BY <1>1 DEF VersionIsNext, OpAt, OriginalsStay
<1> QED
  BY <1>2, <1>3 DEF VersionIsNext

\* A step that leaves of the rows what they were, in their groups.
LEMMA VersionsStep ==
  ASSUME VersionsAreOrdered, MakersFitTheirKind, MediaTypeOK,
         clashes \subseteq clashes', OriginalsStay,
         \A a \in Rows' : /\ a \in Rows
                          /\ asset'[a].group = asset[a].group
                          /\ asset'[a].version = asset[a].version,
         \A p \in Op : \/ op'[p] = op[p]
                       \/ VersionsAreOrdered /\ {"reattach"} \notin clashes => VersionIsNext(p)'
  PROVE  VersionsAreOrdered'
<1> SUFFICES ASSUME {"reattach"} \notin clashes'
             PROVE  /\ VersionsDistinct'
                    /\ \A a \in Rows' : asset'[a].group # NoGroup => Founded(asset[a].group)'
                    /\ \A p \in Op : VersionIsNext(p)'
  BY DEF VersionsAreOrdered
<1>1. /\ VersionsDistinct
      /\ \A a \in Rows : asset[a].group # NoGroup => Founded(asset[a].group)
      /\ \A p \in Op : VersionIsNext(p)
      /\ {"reattach"} \notin clashes
  BY DEF VersionsAreOrdered
<1>2. VersionsDistinct'
  BY <1>1 DEF VersionsDistinct
<1>3. ASSUME NEW a \in Rows', asset'[a].group # NoGroup
      PROVE  Founded(asset[a].group)'
  <2>1. Founded(asset[a].group) /\ asset[a].group \in Asset
    BY <1>1, <1>3, RowTypes DEF AssetRow
  <2> QED
    BY <1>3, <2>1 DEF OriginalsStay, Founded
<1>4. \A g : \A a \in Group(g)' : a \in Group(g) /\ asset'[a].version = asset[a].version
  BY DEF Group
<1>5. \A p \in Op : VersionIsNext(p)'
  <2> SUFFICES ASSUME NEW p \in Op, op'[p] = op[p] PROVE VersionIsNext(p)'
    BY <1>1
  <2>1. \A a \in Group(op[p].group)' : a \in Group(op[p].group) /\ asset'[a].version = asset[a].version
    BY <1>4 DEF Group
  <2> QED
    BY <1>1, <2>1, VersionStays
<1> QED
  BY <1>2, <1>3, <1>5

\* A step of o that gives the table the row a.
LEMMA VersionsGain ==
  ASSUME VersionsAreOrdered, OverlapsAreKnown, MakersFitTheirKind, MediaTypeOK,
         clashes \subseteq clashes', NEW a \in Asset, Gains(a),
         \A p \in Op : op'[p] = op[p] \/ Idle(p)',
         \/ asset'[a].group = NoGroup
         \/ \E o \in Op : /\ op[o].kind = "reattach" /\ OpAt(o, "create") /\ Idle(o)'
                          /\ asset'[a].group = op[o].group
                          /\ asset'[a].version = op[o].version
  PROVE  VersionsAreOrdered'
<1> SUFFICES ASSUME {"reattach"} \notin clashes'
             PROVE  /\ VersionsDistinct'
                    /\ \A x \in Rows' : asset'[x].group # NoGroup => Founded(asset[x].group)'
                    /\ \A p \in Op : VersionIsNext(p)'
  BY DEF VersionsAreOrdered
<1>1. /\ VersionsDistinct
      /\ \A x \in Rows : asset[x].group # NoGroup => Founded(asset[x].group)
      /\ \A p \in Op : VersionIsNext(p)
      /\ {"reattach"} \notin clashes
  BY DEF VersionsAreOrdered
<1>2. /\ Rows' = Rows \cup {a} /\ a \notin Rows
      /\ \A x \in Rows : asset'[x] = asset[x] /\ x # a /\ asset[x] \in AssetRow
      /\ OriginalsStay /\ ~Founded(a) /\ ~Ungrouped(a)
  BY GainedRows, GainedOriginals, RowTypes
<1>3. asset'[a].group # NoGroup =>
        /\ asset'[a].group \in Asset
        /\ Founded(asset'[a].group)
        /\ \A x \in Group(asset'[a].group) : asset[x].version < asset'[a].version
  BY <1>1 DEF VersionIsNext, MakersFitTheirKind, OpAt
<1>4. VersionsDistinct'
  <2> SUFFICES ASSUME NEW x \in Rows', NEW y \in Rows', x # y,
                      asset'[x].group = asset'[y].group, asset'[x].group # NoGroup
               PROVE  asset'[x].version # asset'[y].version
    BY DEF VersionsDistinct
  <2>1. CASE x # a /\ y # a
    BY <1>1, <1>2, <2>1 DEF VersionsDistinct
  <2>2. ASSUME NEW z \in Rows, asset[z].group = asset'[a].group, asset'[a].group # NoGroup
        PROVE  asset'[z].version # asset'[a].version
    <3>1. z \in Group(asset'[a].group)
      BY <2>2 DEF Group
    <3>2. asset[z].version < asset'[a].version /\ asset'[z] = asset[z]
      BY <1>2, <1>3, <2>2, <3>1
    <3>3. asset[z].version \in Nat
      BY <1>2 DEF AssetRow
    <3> QED
      BY <3>2, <3>3
  <2> QED
    BY <1>2, <2>1, <2>2
<1>5. ASSUME NEW x \in Rows', asset'[x].group # NoGroup
      PROVE  Founded(asset[x].group)'
  <2>1. Founded(asset'[x].group) /\ asset'[x].group \in Asset
    BY <1>1, <1>2, <1>3, <1>5 DEF AssetRow
  <2> QED
    BY <1>2, <2>1 DEF OriginalsStay, Founded
<1>6. ASSUME NEW p \in Op
      PROVE  VersionIsNext(p)'
  <2>1. CASE Idle(p)'
    BY <2>1 DEF Idle, IdleOp, VersionIsNext
  <2>2. CASE op'[p] = op[p] /\ ~Idle(p)' /\ op[p].kind = "reattach"
    <3>1. op[p].group \in Asset /\ (Founded(op[p].group) \/ Ungrouped(op[p].group))
      BY <1>1, <2>2 DEF VersionIsNext, MakersFitTheirKind, OpAt
    <3>2. asset'[a].group = NoGroup
      BY <1>1, <2>2, ReattachmentsAreApart DEF Idle
    <3>3. op[p].group # a /\ op[p].group # NoGroup
      BY <1>2, <3>1, MediaAssumption
    <3>4. \A x \in Group(op[p].group)' :
            x \in Group(op[p].group) /\ asset'[x].version = asset[x].version
      BY <1>2, <2>2, <3>2, <3>3 DEF Group
    <3> QED
      BY <1>1, <1>2, <2>2, <3>4, VersionStays
  <2>3. CASE op'[p] = op[p] /\ op[p].kind # "reattach"
    BY <2>3 DEF VersionIsNext
  <2> QED
    BY <2>1, <2>2, <2>3
<1> QED
  BY <1>4, <1>5, <1>6

LEMMA VersionsKept ==
  ASSUME MediaTypeOK, MakersAreReady, OverlapsAreKnown, MakersFitTheirKind,
         VersionsAreOrdered, clashes \subseteq clashes', MediaNext
  PROVE  VersionsAreOrdered'
<1>1. ASSUME NEW o \in Op, OnlyMoves(o), RowsFade,
             VersionsAreOrdered /\ {"reattach"} \notin clashes => VersionIsNext(o)'
      PROVE  VersionsAreOrdered'
  BY <1>1, FadingOriginals, VersionsStep DEF OnlyMoves
<1>2. ASSUME NEW o \in Op, OnlyMoves(o), RowsFade, op'[o].kind # "reattach"
      PROVE  VersionsAreOrdered'
  BY <1>1, <1>2 DEF VersionIsNext
<1>3. UNCHANGED asset => RowsFade
  BY FadeSteps
<1>4. ASSUME NEW o \in Op, NEW i \in Item, NEW h \in Bytes, GenerateImage(o, i, h)
      PROVE  VersionsAreOrdered'
  <2>1. Begins(o) /\ op'[o] = Generating(i, h, "findByHash") /\ UNCHANGED asset
    BY <1>4, GenerateMoves
  <2> QED
    BY <1>2, <1>3, <2>1 DEF Begins, Generating
<1>5. ASSUME NEW o \in Op, NEW i \in Item, ProduceVideo(o, i)
      PROVE  VersionsAreOrdered'
  <2>1. Begins(o) /\ op'[o] = Generating(i, NoHash, "put") /\ UNCHANGED asset
    BY <1>5, GenerateMoves
  <2> QED
    BY <1>2, <1>3, <2>1 DEF Begins, Generating
<1>6. ASSUME NEW o \in Op, FindByHash(o) \/ \E b \in Blob : Put(o, b)
      PROVE  VersionsAreOrdered'
  <2>1. OnlyMoves(o) /\ KeepsRow(o) /\ UNCHANGED asset
    BY <1>6, FindByHashMoves, PutMoves
  <2>2. op[o].kind # "reattach"
    BY <1>6 DEF MakersFitTheirKind, FindByHash, Put, OpAt
  <2> QED
    BY <1>2, <1>3, <2>1, <2>2 DEF KeepsRow, GoesOn
<1>7. ASSUME NEW o \in Op, NEW a \in Asset, CreateAsset(o, a)
      PROVE  VersionsAreOrdered'
  <2>1. /\ Gains(a) /\ Makes(o) /\ OpAt(o, "create")
        /\ asset'[a].group = op[o].group
        /\ asset'[a].version = op[o].version
    BY <1>7, CreateAssetMoves
  <2>2. Ends(o)
    BY <1>7, EndIs
  <2>3. \A p \in Op : op'[p] = op[p] \/ Idle(p)'
    BY <2>2 DEF Ends, OnlyMoves
  <2>4. \/ asset'[a].group = NoGroup
        \/ op[o].kind = "reattach" /\ Idle(o)'
    BY <2>1, <2>2 DEF Makes, Ends, MakersFitTheirKind
  <2> QED
    BY <2>1, <2>3, <2>4, VersionsGain
<1>8. ASSUME NEW i \in Item, NEW a \in Asset, PushAsset(i, a)
      PROVE  VersionsAreOrdered'
  <2>1. Gains(a) /\ UNCHANGED op /\ asset'[a].group = NoGroup
    BY <1>8, PushAssetMoves
  <2>2. \A p \in Op : op'[p] = op[p]
    BY <2>1
  <2> QED
    BY <2>1, <2>2, VersionsGain
<1>9. ASSUME NEW o \in Op, NEW a \in Asset, NEW i \in Item, Reattach(o, a, i)
      PROVE  VersionsAreOrdered'
  <2>1. /\ Begins(o) /\ UNCHANGED asset /\ a \in Rows
        /\ \/ asset[a].group # NoGroup /\ op'[o].pc = "version" /\ op'[o].group = asset[a].group
           \/ asset[a].group = NoGroup /\ op'[o].pc = "anchor" /\ op'[o].group = a
    BY <1>9, ReattachMoves
  <2>2. ASSUME VersionsAreOrdered, {"reattach"} \notin clashes
        PROVE  VersionIsNext(o)'
    <3>1. \/ op'[o].pc = "version" /\ Founded(op'[o].group)
          \/ op'[o].pc = "anchor" /\ Ungrouped(op'[o].group)
      BY <2>1, <2>2 DEF VersionsAreOrdered, Ungrouped, Rows
    <3>2. asset' = asset
      BY <2>1
    <3> QED
      BY <3>1, <3>2 DEF VersionIsNext, OpAt, Founded, Ungrouped, Exists
  <2> QED
    BY <1>1, <1>3, <2>1, <2>2 DEF Begins
<1>10. ASSUME NEW o \in Op, AnchorGroup(o)
       PROVE  VersionsAreOrdered'
  <2> SUFFICES ASSUME {"reattach"} \notin clashes'
               PROVE  /\ VersionsDistinct'
                      /\ \A x \in Rows' : asset'[x].group # NoGroup => Founded(asset[x].group)'
                      /\ \A p \in Op : VersionIsNext(p)'
    BY DEF VersionsAreOrdered
  <2>1. /\ VersionsDistinct
        /\ \A x \in Rows : asset[x].group # NoGroup => Founded(asset[x].group)
        /\ \A p \in Op : VersionIsNext(p)
        /\ {"reattach"} \notin clashes
    BY DEF VersionsAreOrdered
  <2>2. /\ OnlyMoves(o) /\ KeepsRow(o) /\ OpAt(o, "anchor") /\ op'[o].pc = "version"
        /\ op[o].group \in Asset
        /\ asset' = IF Ungrouped(op[o].group)
                    THEN [asset EXCEPT ![op[o].group].group = op[o].group] ELSE asset
    BY <1>10, AnchorGroupMoves
  <2>3. op[o].kind = "reattach"
    BY <2>2, MediaAssumption DEF KeepsRow, Makes, MakersFitTheirKind
  <2>4. PICK g \in Asset : g = op[o].group
    BY <2>2
  <2>5. /\ \A x \in Asset : x # g => asset'[x] = asset[x]
        /\ asset[g] = Deleted => asset'[g] = Deleted
        /\ Exists(g) => asset'[g].group = IF asset[g].group = NoGroup THEN g ELSE asset[g].group
        /\ Rows' = Rows
        /\ \A x \in Rows' : x \in Rows /\ asset'[x].version = asset[x].version
    BY <2>2, <2>4, AnchoredRows
  <2>6. Exists(g)' <=> Exists(g)
    BY <2>5 DEF Rows
  <2>7. Founded(g) \/ Ungrouped(g)
    BY <2>1, <2>2, <2>3, <2>4 DEF VersionIsNext
  <2>8. Founded(g)'
    BY <2>5, <2>6, <2>7, MediaAssumption DEF Founded, Ungrouped
  <2>9. \A h \in Asset : Founded(h) => Founded(h)'
    BY <2>5, <2>8 DEF Founded, Exists
  <2>10. \A x \in Rows : asset'[x].group = asset[x].group \/
                         (x = g /\ Ungrouped(g) /\ asset'[x].group = g)
    BY <2>5 DEF Rows, Ungrouped
  <2>11. \A x \in Rows' : asset'[x].group # NoGroup => Founded(asset[x].group)'
    <3> SUFFICES ASSUME NEW x \in Rows', asset'[x].group # NoGroup
                 PROVE  Founded(asset[x].group)'
      OBVIOUS
    <3>1. x \in Rows /\ asset[x] \in AssetRow
      BY <2>5, RowTypes
    <3>2. CASE asset'[x].group = g
      BY <2>8, <3>2 DEF Founded
    <3>3. CASE asset'[x].group = asset[x].group
      <4>1. Founded(asset[x].group) /\ asset[x].group \in Asset
        BY <2>1, <3>1, <3>3 DEF AssetRow
      <4> QED
        BY <2>9, <3>3, <4>1 DEF Founded
    <3> QED
      BY <2>10, <3>1, <3>2, <3>3
  <2>12. VersionsDistinct'
    <3>1. Ungrouped(g) => \A x \in Rows : asset[x].group # g
      BY <2>1, MediaAssumption DEF Founded, Ungrouped, Exists, Deleted
    <3> QED
      BY <2>1, <2>5, <2>10, <3>1 DEF VersionsDistinct
  <2>13. ASSUME NEW p \in Op PROVE VersionIsNext(p)'
    <3>1. CASE p = o
      <4>1. op'[o].group = g /\ op'[o].pc = "version"
        BY <2>2, <2>4 DEF KeepsRow
      <4> QED
        BY <2>8, <3>1, <4>1 DEF VersionIsNext, OpAt, Founded
    <3>2. CASE p # o
      <4>1. op[p].kind # "reattach" /\ op'[p] = op[p]
        BY <2>1, <2>2, <2>3, <3>2, ReattachmentsAreApart DEF OnlyMoves
      <4> QED
        BY <4>1 DEF VersionIsNext
    <3> QED
      BY <3>1, <3>2
  <2> QED
    BY <2>11, <2>12, <2>13
<1>11. ASSUME NEW o \in Op, NextVersion(o)
       PROVE  VersionsAreOrdered'
  <2>1. /\ OnlyMoves(o) /\ KeepsRow(o) /\ UNCHANGED asset
        /\ OpAt(o, "version") /\ op'[o].pc = "create"
    BY <1>11, NextVersionMoves
  <2>2. PICK v \in LatestVersion(op[o].group) : op'[o].version = v + 1
    BY <1>11, NextVersionMoves
  <2>3. ASSUME VersionsAreOrdered, {"reattach"} \notin clashes
        PROVE  VersionIsNext(o)'
    <3>1. v \in Nat /\ \A a \in Group(op[o].group) : asset[a].version <= v
      BY RowTypes DEF LatestVersion, Group, AssetRow
    <3>2. \A a \in Group(op[o].group) : asset[a].version < v + 1
      BY <3>1, RowTypes DEF Group, AssetRow
    <3>3. op[o].kind = "reattach" => Founded(op[o].group)
      BY <2>1, <2>3 DEF VersionsAreOrdered, VersionIsNext, OpAt
    <3>4. asset' = asset /\ op'[o].group = op[o].group /\ op'[o].kind = op[o].kind
      BY <2>1 DEF KeepsRow, GoesOn
    <3> QED
      BY <2>1, <2>2, <3>2, <3>3, <3>4 DEF VersionIsNext, OpAt, Founded, Exists, Group, Rows
  <2> QED
    BY <1>1, <1>3, <2>1, <2>3
<1>12. ASSUME NEW o \in Op, NEW c \in Client, NEW old \in SUBSET RowsOf(c),
              FindPurgeable(o, c, old)
       PROVE  VersionsAreOrdered'
  <2>1. Begins(o) /\ UNCHANGED asset /\ op'[o].kind = "purge"
    BY <1>12, FindPurgeableMoves
  <2> QED
    BY <1>2, <1>3, <2>1 DEF Begins
<1>13. ASSUME NEW o \in Op,
              DeleteAssets(o) \/ DeleteByUrl(o) \/ \E u \in Url : CountByUrl(o, u)
       PROVE  VersionsAreOrdered'
  <2>1. OnlyMoves(o) /\ op'[o].kind = "purge"
    BY <1>13, PurgeMoves DEF GoesOn
  <2>2. RowsFade
    BY <1>3, <1>13, FadeSteps, PurgeMoves
  <2> QED
    BY <1>2, <2>1, <2>2
<1>14. ASSUME NEW o \in Op, PurgeDone(o) \/ OpDies(o)
       PROVE  VersionsAreOrdered'
  <2>1. OnlyMoves(o) /\ op'[o] = IdleOp /\ UNCHANGED asset
    BY <1>14, EndIs DEF Ends, Idle, PurgeDone, OpDies
  <2> QED
    BY <1>2, <1>3, <2>1 DEF IdleOp
<1>15. CASE \/ \E a \in Asset, archived \in BOOLEAN : SetArchived(a, archived)
            \/ \E c \in Client : \E old \in SUBSET RowsOf(c) : RunRetention(c, old)
            \/ \E i \in Item : ItemMoves(i)
  <2>1. RowsFade /\ \A p \in Op : op'[p] = op[p]
    BY <1>15, FadeSteps DEF SetArchived, RunRetention, ItemMoves
  <2> QED
    BY <2>1, FadingOriginals, VersionsStep
<1> QED
  BY <1>4, <1>5, <1>6, <1>7, <1>8, <1>9, <1>10, <1>11, <1>12, <1>13, <1>14, <1>15
  DEF MediaNext, OpStep

----------------------------------------------------------------------------
(* Bytes.                                                                   *)

\* While nothing has overlapped, one operation at most is in progress.
LEMMA OneAtATime ==
  ASSUME MediaTypeOK, OverlapsAreKnown, NoOverlap,
         NEW o \in Op, NEW p \in Op, ~Idle(o), ~Idle(p)
  PROVE  o = p
<1>1. op[o].kind # "restore" /\ op[p].kind # "restore"
  BY OpTypes DEF Makes
<1>2. {op[o].kind, op[p].kind} # {"purge", "restore"}
  BY <1>1
<1>3. o # p => {op[o].kind, op[p].kind} \in clashes
  BY DEF OverlapsAreKnown
<1> QED
  BY <1>2, <1>3 DEF NoOverlap

\* The rows after a step are rows from before it, of the same bytes.
BytesStay ==
  \A a \in Rows' : /\ a \in Rows
                   /\ asset'[a].url = asset[a].url
                   /\ asset'[a].item = asset[a].item
                   /\ asset'[a].hash = asset[a].hash

LEMMA BytesStep ==
  ASSUME BytesAreKnown, clashes \subseteq clashes', BytesStay,
         \A p \in Op : \/ op'[p] = op[p]
                       \/ BytesAreKnown /\ NoOverlap => BytesAreShared(p)'
  PROVE  BytesAreKnown'
<1> SUFFICES ASSUME NoOverlap'
             PROVE  BytesAreStoredOnce' /\ \A p \in Op : BytesAreShared(p)'
  BY DEF BytesAreKnown
<1>1. NoOverlap /\ BytesAreStoredOnce /\ \A p \in Op : BytesAreShared(p)
  BY DEF BytesAreKnown, NoOverlap
<1>2. BytesAreStoredOnce'
  BY <1>1 DEF BytesAreStoredOnce, BytesStay
<1>3. ASSUME NEW p \in Op, op'[p] = op[p]
      PROVE  BytesAreShared(p)'
  BY <1>1, <1>3 DEF BytesAreShared, BytesStay, SameBytes, RowsOf, Makes, OpAt
<1> QED
  BY <1>1, <1>2, <1>3

\* A step that gives the table the row a, by the one operation in progress or
\* without bytes of ours.
LEMMA BytesGain ==
  ASSUME BytesAreKnown, OverlapsAreKnown, MediaTypeOK, clashes \subseteq clashes',
         NEW a \in Asset, Gains(a),
         \/ asset'[a].hash = NoHash /\ \A p \in Op : op'[p] = op[p]
         \/ \E o \in Op : /\ ~Idle(o) /\ Idle(o)' /\ OnlyMoves(o)
                          /\ Makes(o) /\ OpAt(o, "create")
                          /\ asset'[a].url = op[o].url
                          /\ asset'[a].item = op[o].item
                          /\ asset'[a].hash = op[o].hash
  PROVE  BytesAreKnown'
<1> SUFFICES ASSUME NoOverlap'
             PROVE  BytesAreStoredOnce' /\ \A p \in Op : BytesAreShared(p)'
  BY DEF BytesAreKnown
<1>1. NoOverlap /\ BytesAreStoredOnce /\ \A p \in Op : BytesAreShared(p)
  BY DEF BytesAreKnown, NoOverlap
<1>2. /\ Rows' = Rows \cup {a} /\ a \notin Rows
      /\ \A x \in Rows : asset'[x] = asset[x] /\ x # a
  BY GainedRows
<1>3. asset'[a].hash # NoHash =>
        \A x \in Rows : /\ asset[x].hash = asset'[a].hash
                        /\ ClientOf[asset[x].item] = ClientOf[asset'[a].item]
                        => asset[x].url = asset'[a].url
  BY <1>1 DEF BytesAreShared, SameBytes, RowsOf, OpAt
<1>4. BytesAreStoredOnce'
  BY <1>1, <1>2, <1>3 DEF BytesAreStoredOnce
<1>5. CASE asset'[a].hash = NoHash /\ \A p \in Op : op'[p] = op[p]
  <2>1. ASSUME NEW p \in Op PROVE BytesAreShared(p)'
    <3>1. BytesAreShared(p) /\ op'[p] = op[p]
      BY <1>1, <1>5
    <3> QED
      BY <1>2, <1>5, <3>1 DEF BytesAreShared, SameBytes, RowsOf, Makes, OpAt
  <2> QED
    BY <1>4, <2>1
<1>6. CASE \E o \in Op : ~Idle(o) /\ Idle(o)' /\ OnlyMoves(o)
  <2>1. \A p \in Op : Idle(p)'
    BY <1>1, <1>6, OneAtATime DEF OnlyMoves, Idle
  <2>2. \A p \in Op : BytesAreShared(p)'
    BY <2>1 DEF BytesAreShared, Makes, Idle, IdleOp
  <2> QED
    BY <1>4, <2>2
<1> QED
  BY <1>5, <1>6

LEMMA BytesKept ==
  ASSUME MediaTypeOK, MakersAreReady, OverlapsAreKnown, BytesAreKnown,
         clashes \subseteq clashes', MediaNext
  PROVE  BytesAreKnown'
<1>1. ASSUME NEW o \in Op, OnlyMoves(o), BytesStay,
             BytesAreKnown /\ NoOverlap => BytesAreShared(o)'
      PROVE  BytesAreKnown'
  BY <1>1, BytesStep DEF OnlyMoves
<1>2. RowsFade => BytesStay
  BY DEF RowsFade, BytesStay
<1>3. UNCHANGED asset => BytesStay
  BY <1>2, FadeSteps
<1>4. ASSUME NEW o \in Op, NEW i \in Item, NEW h \in Bytes, GenerateImage(o, i, h)
      PROVE  BytesAreKnown'
  <2>1. Begins(o) /\ op'[o] = Generating(i, h, "findByHash") /\ UNCHANGED asset
    BY <1>4, GenerateMoves
  <2>2. BytesAreShared(o)'
    BY <2>1 DEF Generating, BytesAreShared, OpAt
  <2> QED
    BY <1>1, <1>3, <2>1, <2>2 DEF Begins
<1>5. ASSUME NEW o \in Op, NEW i \in Item, ProduceVideo(o, i)
      PROVE  BytesAreKnown'
  <2>1. Begins(o) /\ op'[o] = Generating(i, NoHash, "put") /\ UNCHANGED asset
    BY <1>5, GenerateMoves
  <2>2. BytesAreShared(o)'
    BY <2>1 DEF Generating, BytesAreShared, OpAt
  <2> QED
    BY <1>1, <1>3, <2>1, <2>2 DEF Begins
<1>6. ASSUME NEW o \in Op, FindByHash(o)
      PROVE  BytesAreKnown'
  <2>1. /\ OnlyMoves(o) /\ KeepsRow(o) /\ UNCHANGED asset
        /\ \/ /\ op'[o].pc = "put"
              /\ SameBytes(ClientOf[op[o].item], op[o].hash) = {}
           \/ /\ op'[o].pc = "create"
              /\ \E a \in SameBytes(ClientOf[op[o].item], op[o].hash) :
                   op'[o].url = asset[a].url
    BY <1>6, FindByHashMoves
  <2>2. ASSUME BytesAreKnown, NoOverlap, op[o].hash # NoHash
        PROVE  \A a, b \in SameBytes(ClientOf[op[o].item], op[o].hash) :
                 asset[a].url = asset[b].url
    BY <2>2 DEF BytesAreKnown, BytesAreStoredOnce, SameBytes, RowsOf
  <2>3. ASSUME BytesAreKnown, NoOverlap PROVE BytesAreShared(o)'
    BY <2>1, <2>2, <2>3
    DEF BytesAreShared, OpAt, KeepsRow, SameBytes, RowsOf, Rows, Exists
  <2> QED
    BY <1>1, <1>3, <2>1, <2>3
<1>7. ASSUME NEW o \in Op, NEW b \in Blob, Put(o, b)
      PROVE  BytesAreKnown'
  <2>1. /\ OnlyMoves(o) /\ KeepsRow(o) /\ UNCHANGED asset
        /\ OpAt(o, "put") /\ op'[o].pc = "create"
    BY <1>7, PutMoves
  <2>2. ASSUME BytesAreKnown, NoOverlap PROVE BytesAreShared(o)'
    <3>1. op[o].hash # NoHash => SameBytes(ClientOf[op[o].item], op[o].hash) = {}
      BY <2>1, <2>2 DEF BytesAreKnown, BytesAreShared, KeepsRow
    <3> QED
      BY <2>1, <3>1 DEF BytesAreShared, OpAt, KeepsRow, SameBytes, RowsOf, Rows, Exists
  <2> QED
    BY <1>1, <1>3, <2>1, <2>2
<1>8. ASSUME NEW o \in Op, NEW a \in Asset, CreateAsset(o, a)
      PROVE  BytesAreKnown'
  <2>1. /\ Gains(a) /\ Makes(o) /\ OpAt(o, "create")
        /\ asset'[a].url = op[o].url
        /\ asset'[a].item = op[o].item
        /\ asset'[a].hash = op[o].hash
    BY <1>8, CreateAssetMoves
  <2>2. ~Idle(o) /\ Idle(o)' /\ OnlyMoves(o)
    BY <1>8, EndIs DEF Ends
  <2> QED
    BY <2>1, <2>2, BytesGain
<1>9. ASSUME NEW i \in Item, NEW a \in Asset, PushAsset(i, a)
      PROVE  BytesAreKnown'
  <2>1. Gains(a) /\ UNCHANGED op /\ asset'[a].hash = NoHash
    BY <1>9, PushAssetMoves
  <2>2. \A p \in Op : op'[p] = op[p]
    BY <2>1
  <2> QED
    BY <2>1, <2>2, BytesGain
<1>10. ASSUME NEW o \in Op, NEW a \in Asset, NEW i \in Item, Reattach(o, a, i)
       PROVE  BytesAreKnown'
  <2>1. /\ Begins(o) /\ UNCHANGED asset /\ a \in Rows
        /\ ClientOf[asset[a].item] = ClientOf[i] /\ op'[o].item = i
        /\ op'[o].url = asset[a].url /\ op'[o].hash = asset[a].hash
        /\ op'[o].pc \in {"version", "anchor"}
    BY <1>10, ReattachMoves
  <2>2. ASSUME BytesAreKnown, NoOverlap PROVE BytesAreShared(o)'
    <3>1. op'[o].hash # NoHash =>
            \A b \in SameBytes(ClientOf[op'[o].item], op'[o].hash) : asset[b].url = op'[o].url
      BY <2>1, <2>2 DEF BytesAreKnown, BytesAreStoredOnce, SameBytes, RowsOf
    <3> QED
      BY <2>1, <3>1 DEF BytesAreShared, OpAt, SameBytes, RowsOf, Rows, Exists
  <2> QED
    BY <1>1, <1>3, <2>1, <2>2 DEF Begins
<1>11. ASSUME NEW o \in Op, AnchorGroup(o)
       PROVE  BytesAreKnown'
  <2>1. /\ OnlyMoves(o) /\ KeepsRow(o) /\ OpAt(o, "anchor")
        /\ op'[o].pc = "version" /\ op'[o].url = op[o].url
        /\ op[o].group \in Asset
        /\ asset' = IF Ungrouped(op[o].group)
                    THEN [asset EXCEPT ![op[o].group].group = op[o].group] ELSE asset
    BY <1>11, AnchorGroupMoves
  <2>2. BytesStay
    BY <2>1, AnchoredRows DEF BytesStay
  <2>3. ASSUME BytesAreKnown, NoOverlap PROVE BytesAreShared(o)'
    BY <2>1, <2>2, <2>3
    DEF BytesAreKnown, BytesAreShared, BytesStay, OpAt, KeepsRow, SameBytes, RowsOf
  <2> QED
    BY <1>1, <2>1, <2>2, <2>3
<1>12. ASSUME NEW o \in Op, NextVersion(o)
       PROVE  BytesAreKnown'
  <2>1. /\ OnlyMoves(o) /\ KeepsRow(o) /\ UNCHANGED asset
        /\ OpAt(o, "version") /\ op'[o].pc = "create" /\ op'[o].url = op[o].url
    BY <1>12, NextVersionMoves
  <2>2. BytesStay
    BY <1>3, <2>1
  <2>3. ASSUME BytesAreKnown, NoOverlap PROVE BytesAreShared(o)'
    BY <2>1, <2>2, <2>3
    DEF BytesAreKnown, BytesAreShared, BytesStay, OpAt, KeepsRow, SameBytes, RowsOf
  <2> QED
    BY <1>1, <2>1, <2>2, <2>3
<1>13. ASSUME NEW o \in Op, NEW c \in Client, NEW old \in SUBSET RowsOf(c),
              FindPurgeable(o, c, old)
       PROVE  BytesAreKnown'
  <2>1. Begins(o) /\ UNCHANGED asset /\ op'[o].kind = "purge"
    BY <1>13, FindPurgeableMoves
  <2> QED
    BY <1>1, <1>3, <2>1 DEF Begins, BytesAreShared, Makes
<1>14. ASSUME NEW o \in Op,
              DeleteAssets(o) \/ DeleteByUrl(o) \/ \E u \in Url : CountByUrl(o, u)
       PROVE  BytesAreKnown'
  <2>1. OnlyMoves(o) /\ op'[o].kind = "purge"
    BY <1>14, PurgeMoves DEF GoesOn
  <2>2. BytesStay
    BY <1>2, <1>3, <1>14, FadeSteps, PurgeMoves
  <2> QED
    BY <1>1, <2>1, <2>2 DEF BytesAreShared, Makes
<1>15. ASSUME NEW o \in Op, PurgeDone(o) \/ OpDies(o)
       PROVE  BytesAreKnown'
  <2>1. OnlyMoves(o) /\ op'[o] = IdleOp /\ UNCHANGED asset
    BY <1>15, EndIs DEF Ends, Idle, PurgeDone, OpDies
  <2> QED
    BY <1>1, <1>3, <2>1 DEF IdleOp, BytesAreShared, Makes
<1>16. CASE \/ \E a \in Asset, archived \in BOOLEAN : SetArchived(a, archived)
            \/ \E c \in Client : \E old \in SUBSET RowsOf(c) : RunRetention(c, old)
            \/ \E i \in Item : ItemMoves(i)
  <2>1. RowsFade /\ \A p \in Op : op'[p] = op[p]
    BY <1>16, FadeSteps DEF SetArchived, RunRetention, ItemMoves
  <2> QED
    BY <1>2, <2>1, BytesStep
<1> QED
  BY <1>4, <1>5, <1>6, <1>7, <1>8, <1>9, <1>10, <1>11, <1>12, <1>13, <1>14, <1>15, <1>16
  DEF MediaNext, OpStep

----------------------------------------------------------------------------
(* Purges.                                                                  *)

\* Row a is in the archive or has been deleted.
PutAway(a) == asset[a].state \in {"archived", "deleted"}

\* A step that begins no purge, and brings nothing back that a purge will delete.
LEMMA PurgesStep ==
  ASSUME PurgesTakeArchived, clashes \subseteq clashes',
         \A o \in Op : op'[o] = op[o] \/ op'[o].pc # "delete",
         \A a \in Asset : \/ PutAway(a) => PutAway(a)'
                          \/ Doomed(a) => {"purge", "restore"} \in clashes'
  PROVE  PurgesTakeArchived'
<1> SUFFICES ASSUME {"purge", "restore"} \notin clashes', NEW a \in Asset, Doomed(a)'
             PROVE  PutAway(a)'
  BY DEF PurgesTakeArchived, PutAway
<1>1. Doomed(a)
  BY DEF Doomed, OpAt
<1>2. PutAway(a)
  BY <1>1 DEF PurgesTakeArchived, PutAway
<1> QED
  BY <1>1, <1>2

LEMMA PurgesKept ==
  ASSUME MediaTypeOK, MakersAreReady, PurgesTakeArchived, clashes \subseteq clashes', MediaNext
  PROVE  PurgesTakeArchived'
<1>1. ASSUME NEW o \in Op, OnlyMoves(o), op'[o].pc # "delete",
             \A a \in Asset : PutAway(a) => PutAway(a)'
      PROVE  PurgesTakeArchived'
  BY <1>1, PurgesStep DEF OnlyMoves
<1>2. UNCHANGED asset => \A a \in Asset : PutAway(a) => PutAway(a)'
  BY DEF PutAway
<1>3. ASSUME NEW a \in Asset, Gains(a)
      PROVE  \A x \in Asset : PutAway(x) => PutAway(x)'
  BY <1>3 DEF Gains, PutAway, Unused
<1>4. ASSUME NEW o \in Op, NEW i \in Item,
             \/ \E h \in Bytes : GenerateImage(o, i, h)
             \/ ProduceVideo(o, i)
      PROVE  PurgesTakeArchived'
  <2>1. OnlyMoves(o) /\ op'[o].pc # "delete" /\ UNCHANGED asset
    <3>1. \A h, pc : Generating(i, h, pc).pc = pc
      BY DEF Generating
    <3>2. Begins(o) /\ op'[o].pc # "delete" /\ UNCHANGED asset
      BY <1>4, <3>1, GenerateMoves
    <3> QED
      BY <3>2 DEF Begins
  <2> QED
    BY <1>1, <1>2, <2>1
<1>5. ASSUME NEW o \in Op,
             \/ FindByHash(o) \/ NextVersion(o)
             \/ \E b \in Blob : Put(o, b)
      PROVE  PurgesTakeArchived'
  <2>1. OnlyMoves(o) /\ op'[o].pc # "delete" /\ UNCHANGED asset
    BY <1>5, FindByHashMoves, NextVersionMoves, PutMoves
  <2> QED
    BY <1>1, <1>2, <2>1
<1>6. ASSUME NEW o \in Op, NEW a \in Asset, CreateAsset(o, a)
      PROVE  PurgesTakeArchived'
  <2>1. Gains(a)
    BY <1>6, CreateAssetMoves
  <2>2. OnlyMoves(o) /\ op'[o].pc # "delete"
    BY <1>6, EndIs DEF Ends, Idle, IdleOp
  <2> QED
    BY <1>1, <1>3, <2>1, <2>2
<1>7. ASSUME NEW o \in Op, NEW a \in Asset, NEW i \in Item, Reattach(o, a, i)
      PROVE  PurgesTakeArchived'
  <2>1. OnlyMoves(o) /\ op'[o].pc # "delete" /\ UNCHANGED asset
    BY <1>7, ReattachMoves DEF Begins
  <2> QED
    BY <1>1, <1>2, <2>1
<1>8. ASSUME NEW o \in Op, AnchorGroup(o)
      PROVE  PurgesTakeArchived'
  <2>1. /\ OnlyMoves(o) /\ op'[o].pc # "delete" /\ op[o].group \in Asset
        /\ asset' = IF Ungrouped(op[o].group)
                    THEN [asset EXCEPT ![op[o].group].group = op[o].group] ELSE asset
    BY <1>8, AnchorGroupMoves
  <2>2. ASSUME Ungrouped(op[o].group)
        PROVE  asset'[op[o].group].state = asset[op[o].group].state
    <3>1. asset[op[o].group] \in AssetRow
      BY <2>1, <2>2, RowTypes DEF Ungrouped, Rows
    <3> QED
      BY <2>1, <2>2, <3>1 DEF MediaTypeOK, AssetRow
  <2>3. \A x \in Asset : x # op[o].group => asset'[x] = asset[x]
    BY <2>1, AnchoredRows
  <2>4. \A x \in Asset : asset'[x].state = asset[x].state
    BY <2>1, <2>2, <2>3
  <2> QED
    BY <1>1, <2>1, <2>4 DEF PutAway
<1>9. ASSUME NEW o \in Op, NEW c \in Client, NEW old \in SUBSET RowsOf(c),
             FindPurgeable(o, c, old)
      PROVE  PurgesTakeArchived'
  <2>1. OnlyMoves(o) /\ UNCHANGED asset
    BY <1>9, FindPurgeableMoves DEF Begins
  <2>2. op'[o].ids = old
    <3>1. PICK locals : locals = [kind |-> "purge", pc |-> "delete", ids |-> old,
                                  urls |-> {asset[a].url : a \in old}, url |-> NoUrl]
      OBVIOUS
    <3>2. Begin(o, locals)
      BY <1>9, <3>1 DEF FindPurgeable
    <3>3. op'[o] = locals
      BY <3>2 DEF Begin, MediaTypeOK
    <3> QED
      BY <3>1, <3>3
  <2>3. \A a \in old : asset[a].state = "archived"
    BY <1>9 DEF FindPurgeable
  <2> SUFFICES ASSUME {"purge", "restore"} \notin clashes', NEW a \in Asset, Doomed(a)'
               PROVE  PutAway(a)'
    BY DEF PurgesTakeArchived, PutAway
  <2>4. Doomed(a) \/ a \in op'[o].ids
    BY <2>1 DEF Doomed, OpAt, OnlyMoves
  <2>5. Doomed(a) => PutAway(a)
    BY DEF PurgesTakeArchived, PutAway
  <2> QED
    BY <2>1, <2>2, <2>3, <2>4, <2>5 DEF PutAway
<1>10. ASSUME NEW o \in Op, DeleteAssets(o)
       PROVE  PurgesTakeArchived'
  <2>1. OnlyMoves(o) /\ op'[o].pc # "delete"
    BY <1>10, PurgeMoves
  <2>2. \A a \in Asset : asset'[a] = asset[a] \/ asset'[a] = Deleted
    BY <1>10 DEF DeleteAssets
  <2> QED
    BY <1>1, <2>1, <2>2 DEF PutAway, Deleted
<1>11. ASSUME NEW o \in Op, DeleteByUrl(o) \/ \E u \in Url : CountByUrl(o, u)
       PROVE  PurgesTakeArchived'
  <2>1. OnlyMoves(o) /\ op'[o].pc # "delete" /\ UNCHANGED asset
    BY <1>11, PurgeMoves
  <2> QED
    BY <1>1, <1>2, <2>1
<1>12. ASSUME NEW o \in Op, PurgeDone(o) \/ OpDies(o)
       PROVE  PurgesTakeArchived'
  <2>1. OnlyMoves(o) /\ op'[o].pc # "delete" /\ UNCHANGED asset
    BY <1>12, EndIs DEF Ends, Idle, IdleOp, PurgeDone, OpDies
  <2> QED
    BY <1>1, <1>2, <2>1
<1>13. ASSUME NEW i \in Item, NEW a \in Asset, PushAsset(i, a)
       PROVE  PurgesTakeArchived'
  <2>1. Gains(a) /\ UNCHANGED op
    BY <1>13, PushAssetMoves
  <2> QED
    BY <1>3, <2>1, PurgesStep
<1>14. ASSUME NEW a \in Asset, NEW archived \in BOOLEAN, SetArchived(a, archived)
       PROVE  PurgesTakeArchived'
  <2>1. UNCHANGED op /\ (~archived /\ Doomed(a) => {"purge", "restore"} \in clashes')
    BY <1>14 DEF SetArchived
  <2>2. asset[a] \in AssetRow
    BY <1>14, RowTypes DEF SetArchived, Rows
  <2>3. asset'[a].state = IF archived THEN "archived" ELSE "live"
    BY <1>14, <2>2 DEF SetArchived, MediaTypeOK, AssetRow
  <2>4. \A x \in Asset : x # a => asset'[x] = asset[x]
    BY <1>14 DEF SetArchived, MediaTypeOK
  <2>5. \A x \in Asset : \/ PutAway(x) => PutAway(x)'
                         \/ Doomed(x) => {"purge", "restore"} \in clashes'
    BY <2>1, <2>3, <2>4 DEF PutAway
  <2> QED
    BY <2>1, <2>5, PurgesStep
<1>15. ASSUME NEW c \in Client, NEW old \in SUBSET RowsOf(c), RunRetention(c, old)
       PROVE  PurgesTakeArchived'
  <2>1. UNCHANGED op
    BY <1>15 DEF RunRetention
  <2>2. \A a \in old : asset[a] \in AssetRow
    BY RowTypes
  <2>3. \A a \in Asset : asset'[a] = IF a \in old
                                     THEN [asset[a] EXCEPT !.state = "archived"] ELSE asset[a]
    BY <1>15 DEF RunRetention
  <2>4. \A a \in old \cap Asset : asset'[a].state = "archived"
    BY <2>2, <2>3 DEF AssetRow
  <2>5. \A a \in Asset : PutAway(a) => PutAway(a)'
    BY <2>3, <2>4 DEF PutAway
  <2> QED
    BY <2>1, <2>5, PurgesStep
<1>16. ASSUME NEW i \in Item, ItemMoves(i)
       PROVE  PurgesTakeArchived'
  BY <1>2, <1>16, PurgesStep DEF ItemMoves
<1> QED
  BY <1>4, <1>5, <1>6, <1>7, <1>8, <1>9, <1>10, <1>11, <1>12, <1>13, <1>14, <1>15, <1>16
  DEF MediaNext, OpStep

----------------------------------------------------------------------------

LEMMA LibraryInvStutter ==
  ASSUME LibraryInv, UNCHANGED mediaVars
  PROVE  LibraryInv'
<1>1. MediaInv'
  BY MediaInvStutter DEF LibraryInv
<1>2. OverlapsAreKnown' /\ MakersFitTheirKind'
  BY DEF LibraryInv, mediaVars, OverlapsAreKnown, MakersFitTheirKind, Idle
<1>3. ObjectsAreSafe'
  BY DEF LibraryInv, mediaVars, ObjectsAreSafe, PurgesRunApart, ObjectIsSafe, Intact, Makes,
         OpAt, Referenced, Rows, Exists
<1>4. VersionsAreOrdered'
  BY DEF LibraryInv, mediaVars, VersionsAreOrdered, VersionsDistinct, VersionIsNext,
         Founded, Ungrouped, OpAt, Group, Rows, Exists
<1>5. BytesAreKnown'
  BY DEF LibraryInv, mediaVars, BytesAreKnown, BytesAreStoredOnce, BytesAreShared,
         NoOverlap, SameBytes, RowsOf, Makes, OpAt, Rows, Exists
<1>6. PurgesTakeArchived'
  BY DEF LibraryInv, mediaVars, PurgesTakeArchived, Doomed, OpAt
<1> QED
  BY <1>1, <1>2, <1>3, <1>4, <1>5, <1>6 DEF LibraryInv

\* The inductive invariant behind the objects, the versions and the bytes: what
\* an operation in progress has read still holds, as long as none that disturbs
\* it has run at the same time. (media/index.ts:57-152, creative/index.ts:111-124)
THEOREM LibraryInvariance == MediaSpec => []LibraryInv
<1>1. MediaInit => LibraryInv
  <2> SUFFICES ASSUME MediaInit PROVE LibraryInv
    OBVIOUS
  <2>1. MediaInv
    BY MediaStarts
  <2>2. /\ Rows = {}
        /\ \A o \in Op : op[o] = IdleOp
    BY DEF MediaInit, Rows, Exists, Unused
  <2>3. \A o \in Op : Idle(o) /\ ~Makes(o) /\ op[o].kind = "none" /\ op[o].pc = "idle"
    BY <2>2 DEF Idle, Makes, IdleOp
  <2>4. OverlapsAreKnown /\ MakersFitTheirKind
    BY <2>3 DEF OverlapsAreKnown, MakersFitTheirKind
  <2>5. ObjectsAreSafe
    BY <2>2, <2>3 DEF ObjectsAreSafe, ObjectIsSafe, OpAt
  <2>6. VersionsAreOrdered
    BY <2>2, <2>3 DEF VersionsAreOrdered, VersionsDistinct, VersionIsNext
  <2>7. BytesAreKnown
    BY <2>2, <2>3 DEF BytesAreKnown, BytesAreStoredOnce, BytesAreShared
  <2>8. PurgesTakeArchived
    BY <2>3 DEF PurgesTakeArchived, Doomed, OpAt
  <2> QED
    BY <2>1, <2>4, <2>5, <2>6, <2>7, <2>8 DEF LibraryInv
<1>2. LibraryInv /\ [MediaNext]_mediaVars => LibraryInv'
  <2> SUFFICES ASSUME LibraryInv, [MediaNext]_mediaVars PROVE LibraryInv'
    OBVIOUS
  <2>1. CASE MediaNext
    <3>1. MediaTypeOK /\ MakersAreReady /\ ClaimsInv
      BY DEF LibraryInv, MediaInv
    <3>2. MediaInv'
      BY <2>1, <3>1, TypesKept, MakersKept, ClaimsKept DEF MediaInv
    <3>3. OverlapsAreKnown' /\ clashes \subseteq clashes' /\ MakersFitTheirKind'
      BY <2>1, <3>1, OverlapsKept DEF LibraryInv
    <3>4. ObjectsAreSafe' /\ VersionsAreOrdered' /\ BytesAreKnown'
      BY <2>1, <3>1, <3>3, ObjectsKept, VersionsKept, BytesKept DEF LibraryInv
    <3>5. PurgesTakeArchived'
      BY <2>1, <3>1, <3>3, PurgesKept DEF LibraryInv
    <3> QED
      BY <3>2, <3>3, <3>4, <3>5 DEF LibraryInv
  <2>2. CASE UNCHANGED mediaVars
    BY <2>2, LibraryInvStutter
  <2> QED
    BY <2>1, <2>2
<1> QED
  BY <1>1, <1>2, PTL DEF MediaSpec

\* A row over our storage has its bytes, archived rows included, unless a purge
\* ran at the same time as something that makes a row; and what a purge is about
\* to delete is in the archive, unless it was restored after it was listed.
\* (media/index.ts:129-152, prisma-stores.ts:381-396)
THEOREM NothingGetsLost == MediaSpec => []NothingIsLost
<1>1. LibraryInv => RowsHaveBlobs
  BY DEF LibraryInv, ObjectsAreSafe, PurgesRunApart, Intact, RowsHaveBlobs
<1>2. LibraryInv => NothingIsLost
  BY <1>1 DEF LibraryInv, NothingIsLost
<1> QED
  BY <1>2, LibraryInvariance, PTL

\* The versions of a group differ unless two re-attachments overlapped, and a
\* client stores the same bytes once unless operations did.
\* (media/index.ts:64-66, creative/index.ts:111-124)
THEOREM NothingIsMadeTwice == MediaSpec => []NothingTwice
<1>1. LibraryInv => NothingTwice
  BY DEF LibraryInv, VersionsAreOrdered, VersionsDistinct, BytesAreKnown, BytesAreStoredOnce,
         NothingTwice
<1> QED
  BY <1>1, LibraryInvariance, PTL
=============================================================================
