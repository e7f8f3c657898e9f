---------------------------- MODULE MediaLibrary ----------------------------
(***************************************************************************)
(* The assets of the content items and the bytes behind them. Generating an *)
(* image or a video stores bytes and then records a row, unless the client  *)
(* has a row of the same bytes; re-attaching records another row over the   *)
(* stored object; retention archives stale rows and purges archived ones,   *)
(* deleting a stored object once no row refers to it. Each of these is a    *)
(* sequence of statements with awaits between them.                         *)
(***************************************************************************)
EXTENDS Integers, FiniteSets

CONSTANTS Item,      \* content items
          Client,    \* clients
          ClientOf,  \* the client of each item, through its plan
          Asset,     \* Asset rows; an id is never used twice
          Bytes,     \* contents a provider can generate (their sha256)
          NoHash,    \* contentHash NULL: videos and pushed assets
          Blob,      \* keys of stored objects, each with a fresh uuid
          External,  \* the url of an object that is not in our storage
          NoUrl, NoGroup,
          MaxOps,    \* bound: operations started in one behaviour
          Op         \* requests and the retention worker, running at a time

ASSUME MediaAssumption ==
  /\ ClientOf \in [Item -> Client]
  /\ NoHash \notin Bytes
  /\ External \notin Blob
  /\ NoUrl \notin Blob \cup {External}
  /\ NoGroup \notin Asset
  /\ MaxOps \in Nat

VARIABLES
  inUse,    \* the items approved, scheduled or published (RETAINED_STATUSES)
  asset,    \* the Asset table
  blob,     \* the object storage
  op,       \* what each operation keeps across awaits
  begun,    \* how many operations have started
  clashes   \* history: kinds of operations that got in each other's way

mediaVars == <<inUse, asset, blob, op, begun, clashes>>

Url == Blob \cup {External}
Kind == {"generate", "reattach", "purge", "restore"}

Unused == [state |-> "unused"]
Deleted == [state |-> "deleted"]
AssetRow == [state : {"live", "archived"}, item : Item, url : Url,
             source : {"generated", "reused", "upload"},
             hash : Bytes \cup {NoHash}, group : Asset \cup {NoGroup},
             version : Nat \ {0}]

IdleOp == [kind |-> "none", pc |-> "idle"]
Making == [kind : {"generate", "reattach"},
           pc : {"findByHash", "put", "anchor", "version", "create"},
           from : Asset \cup {NoGroup}, item : Item, url : Url \cup {NoUrl},
           hash : Bytes \cup {NoHash}, group : Asset \cup {NoGroup},
           version : Nat \ {0}]
Purging == [kind : {"purge"}, pc : {"delete", "gc", "unlink"},
            ids : SUBSET Asset, urls : SUBSET Url, url : Url \cup {NoUrl}]

MediaTypeOK ==
  /\ inUse \subseteq Item
  /\ asset \in [Asset -> {Unused, Deleted} \cup AssetRow]
  /\ blob \in [Blob -> {"none", "stored", "deleted"}]
  /\ op \in [Op -> {IdleOp} \cup Making \cup Purging]
  /\ begun \in 0 .. MaxOps
  /\ clashes \subseteq {{k1, k2} : k1, k2 \in Kind}

MediaInit ==
  /\ inUse = {}
  /\ asset = [a \in Asset |-> Unused]
  /\ blob = [b \in Blob |-> "none"]
  /\ op = [o \in Op |-> IdleOp]
  /\ begun = 0
  /\ clashes = {}

Exists(a) == asset[a].state \in {"live", "archived"}
Rows == {a \in Asset : Exists(a)}
RowsOf(c) == {a \in Rows : ClientOf[asset[a].item] = c}

Idle(o) == op[o] = IdleOp
OpAt(o, pc) == op[o].pc = pc

\* An operation starts; the history notes what is running already.
Begin(o, locals) ==
  /\ Idle(o)
  /\ begun < MaxOps
  /\ begun' = begun + 1
  /\ op' = [op EXCEPT ![o] = locals]
  /\ clashes' = clashes \cup
       {{locals.kind, op[p].kind} : p \in {q \in Op : ~Idle(q)}}

Continue(o, locals) == op' = [op EXCEPT ![o] = locals] /\ UNCHANGED <<begun, clashes>>

End(o) == Continue(o, IdleOp)

----------------------------------------------------------------------------
(* Generating an image or a video, and assets pushed through the API.       *)

Generating(i, h, pc) ==
  [kind |-> "generate", pc |-> pc, from |-> NoGroup, item |-> i, url |-> NoUrl,
   hash |-> h, group |-> NoGroup, version |-> 1]

\* generateImage: the provider has answered with some bytes.
GenerateImage(o, i, h) ==
  /\ Begin(o, Generating(i, h, "findByHash"))
  /\ UNCHANGED <<inUse, asset, blob>>

\* produceVideo: the video has been assembled. Videos are not deduplicated.
ProduceVideo(o, i) ==
  /\ Begin(o, Generating(i, NoHash, "put"))
  /\ UNCHANGED <<inUse, asset, blob>>

\* Mutant: the hash is looked up in the whole agency.
SameBytesAnywhere(c, h) == {a \in Rows : asset[a].hash = h}

\* Mutant: archived rows are not reused.
SameBytesLive(c, h) ==
  {a \in RowsOf(c) : asset[a].hash = h /\ asset[a].state = "live"}

\* The rows findByHash may return the first of, archived ones included.
SameBytes(c, h) == {a \in RowsOf(c) : asset[a].hash = h}

FindByHash(o) ==
  /\ OpAt(o, "findByHash")
  /\ LET same == SameBytes(ClientOf[op[o].item], op[o].hash)
     IN \/ /\ same = {}
           /\ Continue(o, [op[o] EXCEPT !.pc = "put"])
        \/ \E a \in same :
             Continue(o, [op[o] EXCEPT !.pc = "create", !.url = asset[a].url])
  /\ UNCHANGED <<inUse, asset, blob>>

\* storage.put under a new uuid.
Put(o, b) ==
  /\ OpAt(o, "put")
  /\ blob[b] = "none"
  /\ blob' = [blob EXCEPT ![b] = "stored"]
  /\ Continue(o, [op[o] EXCEPT !.pc = "create", !.url = b])
  /\ UNCHANGED <<inUse, asset>>

NewRow(i, u, s, h, g, v) ==
  [state |-> "live", item |-> i, url |-> u, source |-> s, hash |-> h,
   group |-> g, version |-> v]

\* assets.create, createReattached: the end of generating and of re-attaching.
CreateAsset(o, a) ==
  /\ OpAt(o, "create")
  /\ asset[a] = Unused
  /\ asset' = [asset EXCEPT ![a] =
       NewRow(op[o].item, op[o].url,
              IF op[o].kind = "generate" THEN "generated" ELSE "reused",
              op[o].hash, op[o].group, op[o].version)]
  /\ End(o)
  /\ UNCHANGED <<inUse, blob>>

\* The public API's asset push.
PushAsset(i, a) ==
  /\ asset[a] = Unused
  /\ asset' = [asset EXCEPT ![a] = NewRow(i, External, "upload", NoHash, NoGroup, 1)]
  /\ UNCHANGED <<inUse, blob, op, begun, clashes>>

----------------------------------------------------------------------------
(* Re-attaching an asset to an item of its client.                          *)

MayReuse(a, i) == Exists(a) /\ ClientOf[asset[a].item] = ClientOf[i]

\* getForAgency and itemClient. The row may be archived.
Reattach(o, a, i) ==
  /\ MayReuse(a, i)
  /\ LET anchored == asset[a].group # NoGroup
     IN Begin(o,
          [kind |-> "reattach", pc |-> IF anchored THEN "version" ELSE "anchor",
           from |-> a, item |-> i, url |-> asset[a].url, hash |-> asset[a].hash,
           group |-> IF anchored THEN asset[a].group ELSE a, version |-> 1])
  /\ UNCHANGED <<inUse, asset, blob>>

\* anchorGroup: UPDATE ... WHERE groupId IS NULL.
AnchorGroup(o) ==
  /\ OpAt(o, "anchor")
  /\ LET a == op[o].from
     IN asset' = IF Exists(a) /\ asset[a].group = NoGroup
                 THEN [asset EXCEPT ![a].group = op[o].group] ELSE asset
  /\ Continue(o, [op[o] EXCEPT !.pc = "version"])
  /\ UNCHANGED <<inUse, blob>>

\* The rows of a version group, its original included.
Group(g) == {a \in Rows : asset[a].group = g \/ a = g}

\* Mutant: the number of rows instead of the highest version.
VersionCounted(g) == {Cardinality(Group(g))}

\* Mutant: the absent maximum of a group that is gone is taken for -1.
VersionOfGoneGroup(g) ==
  IF Group(g) = {} THEN {-1} ELSE {Cardinality(Group(g))}

\* The highest version of a group, as a singleton; 0 for a group that is gone.
LatestVersion(g) ==
  LET versions == {0} \cup {asset[a].version : a \in Group(g)}
  IN {v \in versions : \A n \in versions : n <= v}

NextVersion(o) ==
  /\ OpAt(o, "version")
  /\ \E v \in LatestVersion(op[o].group) :
       Continue(o, [op[o] EXCEPT !.pc = "create", !.version = v + 1])
  /\ UNCHANGED <<inUse, asset, blob>>

----------------------------------------------------------------------------
(* Archiving, restoring and retention. Which rows are old enough depends on *)
(* the clock and on the windows configured: any of them may be.             *)

\* A purge has listed the row and will delete it.
Doomed(a) == \E o \in Op : OpAt(o, "delete") /\ a \in op[o].ids

SetArchived(a, archived) ==
  /\ Exists(a)
  /\ asset' = [asset EXCEPT ![a].state = IF archived THEN "archived" ELSE "live"]
  /\ clashes' = IF ~archived /\ Doomed(a)
                THEN clashes \cup {{"purge", "restore"}} ELSE clashes
  /\ UNCHANGED <<inUse, blob, op, begun>>

\* archiveStale, one UPDATE: live, made by us, not of an item in use.
Reclaimable(c) ==
  {a \in RowsOf(c) : /\ asset[a].state = "live"
                     /\ asset[a].source \in {"generated", "reused"}
                     /\ asset[a].item \notin inUse}

RunRetention(c, old) ==
  /\ old # {}
  /\ old \subseteq Reclaimable(c)
  /\ asset' = [a \in Asset |->
       IF a \in old THEN [asset[a] EXCEPT !.state = "archived"] ELSE asset[a]]
  /\ UNCHANGED <<inUse, blob, op, begun, clashes>>

\* Mutant: the age of a row is compared, not the time since it was archived.
FindPurgeableLive(o, c, old) ==
  /\ old # {}
  /\ old \subseteq RowsOf(c)
  /\ Begin(o, [kind |-> "purge", pc |-> "delete", ids |-> old,
               urls |-> {asset[a].url : a \in old}, url |-> NoUrl])
  /\ UNCHANGED <<inUse, asset, blob>>

\* findPurgeable: what has been archived long enough, in whatever item.
FindPurgeable(o, c, old) ==
  /\ old # {}
  /\ old \subseteq {a \in RowsOf(c) : asset[a].state = "archived"}
  /\ Begin(o, [kind |-> "purge", pc |-> "delete", ids |-> old,
               urls |-> {asset[a].url : a \in old}, url |-> NoUrl])
  /\ UNCHANGED <<inUse, asset, blob>>

\* deleteAssets: by id, whatever became of the rows since.
DeleteAssets(o) ==
  /\ OpAt(o, "delete")
  /\ asset' = [a \in Asset |-> IF a \in op[o].ids THEN Deleted ELSE asset[a]]
  /\ Continue(o, [op[o] EXCEPT !.pc = "gc", !.ids = {}])
  /\ UNCHANGED <<inUse, blob>>

\* Mutant: only live rows count.
ReferencedByLive(u) == \E a \in Rows : asset[a].url = u /\ asset[a].state = "live"

\* countByUrl > 0
Referenced(u) == \E a \in Rows : asset[a].url = u

\* The loop over the urls of the deleted rows, in any order.
CountByUrl(o, u) ==
  /\ OpAt(o, "gc")
  /\ u \in op[o].urls
  /\ Continue(o, [op[o] EXCEPT !.urls = @ \ {u},
                               !.pc = IF Referenced(u) THEN "gc" ELSE "unlink",
                               !.url = IF Referenced(u) THEN NoUrl ELSE u])
  /\ UNCHANGED <<inUse, asset, blob>>

\* deleteByUrl: nothing to do for a url that is not ours; a failure is logged.
DeleteByUrl(o) ==
  /\ OpAt(o, "unlink")
  /\ \/ blob' = IF op[o].url \in Blob
                THEN [blob EXCEPT ![op[o].url] = "deleted"] ELSE blob
     \/ UNCHANGED blob
  /\ Continue(o, [op[o] EXCEPT !.pc = "gc", !.url = NoUrl])
  /\ UNCHANGED <<inUse, asset>>

PurgeDone(o) ==
  /\ OpAt(o, "gc")
  /\ op[o].urls = {}
  /\ End(o)
  /\ UNCHANGED <<inUse, asset, blob>>

----------------------------------------------------------------------------

\* Approvals, publications and withdrawals, see module Approval.
ItemMoves(i) ==
  /\ inUse' = IF i \in inUse THEN inUse \ {i} ELSE inUse \cup {i}
  /\ UNCHANGED <<asset, blob, op, begun, clashes>>

\* The request or the worker dies at an await, or a statement fails.
OpDies(o) ==
  /\ ~Idle(o)
  /\ End(o)
  /\ UNCHANGED <<inUse, asset, blob>>

OpStep(o) ==
  \/ \E i \in Item, h \in Bytes : GenerateImage(o, i, h)
  \/ \E i \in Item : ProduceVideo(o, i)
  \/ FindByHash(o)
  \/ \E b \in Blob : Put(o, b)
  \/ \E a \in Asset : CreateAsset(o, a)
  \/ \E a \in Asset, i \in Item : Reattach(o, a, i)
  \/ AnchorGroup(o)
  \/ NextVersion(o)
  \/ \E c \in Client : \E old \in SUBSET RowsOf(c) : FindPurgeable(o, c, old)
  \/ DeleteAssets(o)
  \/ \E u \in Url : CountByUrl(o, u)
  \/ DeleteByUrl(o)
  \/ PurgeDone(o)
  \/ OpDies(o)

MediaNext ==
  \/ \E o \in Op : OpStep(o)
  \/ \E i \in Item, a \in Asset : PushAsset(i, a)
  \/ \E a \in Asset, archived \in BOOLEAN : SetArchived(a, archived)
  \/ \E c \in Client : \E old \in SUBSET RowsOf(c) : RunRetention(c, old)
  \/ \E i \in Item : ItemMoves(i)

MediaSpec == MediaInit /\ [][MediaNext]_mediaVars

----------------------------------------------------------------------------
(* Properties.                                                              *)

\* "Brand assets must not leak across clients": whatever is generated,
\* deduplicated, re-attached and purged in whatever order, the rows over one
\* stored object and the rows of one version group are of one client.
\* (media/index.ts:57-62, creative/index.ts:114)
ReuseStaysWithClient ==
  \A a, b \in Rows :
    \/ asset[a].url = asset[b].url /\ asset[a].url \in Blob
    \/ asset[a].group = asset[b].group /\ asset[a].group # NoGroup
    => ClientOf[asset[a].item] = ClientOf[asset[b].item]

\* A row over our storage has its bytes, archived rows included (they can be
\* restored or re-attached), unless a purge ran at the same time as something
\* that makes a row. (media/index.ts:129-152)
RowsHaveBlobs ==
  clashes \cap {{"purge", "generate"}, {"purge", "reattach"}} = {} =>
    \A a \in Rows : asset[a].url \in Blob => blob[asset[a].url] = "stored"

\* A purge takes only what is in the archive: a row that it is about to delete is
\* archived, or another purge has deleted it, unless it was restored after it was
\* listed. (media/index.ts:129-152, prisma-stores.ts:381-396)
PurgesTakeArchived ==
  {"purge", "restore"} \notin clashes =>
    \A a \in Asset : Doomed(a) => asset[a].state \in {"archived", "deleted"}

\* No row loses its bytes, and no live row is lost.
NothingIsLost == RowsHaveBlobs /\ PurgesTakeArchived

\* The versions of a group are told apart by their numbers, whatever was
\* purged from it, unless two re-attachments ran at the same time.
\* (media/index.ts:64-66)
VersionsDistinct ==
  {"reattach"} \notin clashes =>
    \A a, b \in Rows :
      /\ a # b
      /\ asset[a].group = asset[b].group
      /\ asset[a].group # NoGroup
      => asset[a].version # asset[b].version

\* No two operations have run at the same time.
NoOverlap == clashes \subseteq {{"purge", "restore"}}

\* A client stores the same bytes once, as long as operations do not overlap.
\* (creative/index.ts:111-124)
BytesAreStoredOnce ==
  NoOverlap =>
    \A a, b \in Rows :
      /\ asset[a].hash = asset[b].hash
      /\ asset[a].hash # NoHash
      /\ ClientOf[asset[a].item] = ClientOf[asset[b].item]
      => asset[a].url = asset[b].url

\* No version number and no object exists twice where one was meant.
NothingTwice == VersionsDistinct /\ BytesAreStoredOnce

----------------------------------------------------------------------------
(* The inductive invariant behind ReuseStaysWithClient: an url or a version *)
(* group, wherever it is held, is held for one client only.                 *)

Makes(o) == op[o].kind \in {"generate", "reattach"}

\* An operation on its way to make a row has its url; one about to anchor a
\* group anchors the row it has read.
MakersAreReady ==
  \A o \in Op :
    /\ op[o].pc \in {"anchor", "version", "create"} => op[o].url \in Url
    /\ OpAt(o, "anchor") => op[o].group = op[o].from /\ op[o].from \in Asset

HoldsUrl(u, c) ==
  \/ \E a \in Rows : asset[a].url = u /\ ClientOf[asset[a].item] = c
  \/ \E o \in Op : Makes(o) /\ op[o].url = u /\ ClientOf[op[o].item] = c

HoldsGroup(g, c) ==
  \/ \E a \in Group(g) : ClientOf[asset[a].item] = c
  \/ \E o \in Op : Makes(o) /\ op[o].group = g /\ ClientOf[op[o].item] = c

UrlsHaveOneClient ==
  \A u \in Blob, c, d \in Client : HoldsUrl(u, c) /\ HoldsUrl(u, d) => c = d

GroupsHaveOneClient ==
  \A g \in Asset, c, d \in Client : HoldsGroup(g, c) /\ HoldsGroup(g, d) => c = d

\* What is about to be made is held by nobody.
UnusedIsUnheld ==
  /\ \A u \in Blob, c \in Client : HoldsUrl(u, c) => blob[u] # "none"
  /\ \A g \in Asset, c \in Client : HoldsGroup(g, c) => asset[g] # Unused

ClaimsInv == UrlsHaveOneClient /\ GroupsHaveOneClient /\ UnusedIsUnheld

MediaInv == MediaTypeOK /\ MakersAreReady /\ ClaimsInv

----------------------------------------------------------------------------
(* The inductive invariant behind RowsHaveBlobs and NothingTwice: what the  *)
(* rows and the operations in progress hold, as long as the operations that *)
(* would disturb one another have not run at the same time.                 *)

\* The history has every pair that is running together.
OverlapsAreKnown ==
  \A o, p \in Op :
    o # p /\ ~Idle(o) /\ ~Idle(p) => {op[o].kind, op[p].kind} \in clashes

\* A version group is for re-attaching only.
MakersFitTheirKind ==
  \A o \in Op :
    /\ op[o].kind = "generate" => op[o].group = NoGroup
    /\ op[o].kind = "reattach" =>
         op[o].group \in Asset /\ op[o].pc \in {"anchor", "version", "create"}

PurgesRunApart == clashes \cap {{"purge", "generate"}, {"purge", "reattach"}} = {}

Intact(u) == u \in Blob => blob[u] = "stored"

\* What makes a row has an object to make it of; the url that a purge is about
\* to delete is no row's.
ObjectIsSafe(o) ==
  /\ Makes(o) => Intact(op[o].url)
  /\ OpAt(o, "unlink") /\ op[o].url \in Blob => ~Referenced(op[o].url)

ObjectsAreSafe ==
  PurgesRunApart =>
    /\ \A a \in Rows : Intact(asset[a].url)
    /\ \A o \in Op : ObjectIsSafe(o)

\* The original of a version group is in the group, or gone for good.
Founded(g) == asset[g] = Deleted \/ (Exists(g) /\ asset[g].group = g)
Ungrouped(g) == Exists(g) /\ asset[g].group = NoGroup

\* The version taken for a new row is above those of its group.
VersionIsNext(o) ==
  op[o].kind = "reattach" =>
    /\ OpAt(o, "anchor") => Founded(op[o].group) \/ Ungrouped(op[o].group)
    /\ op[o].pc \in {"version", "create"} => Founded(op[o].group)
    /\ OpAt(o, "create") =>
         \A a \in Group(op[o].group) : asset[a].version < op[o].version

VersionsAreOrdered ==
  {"reattach"} \notin clashes =>
    /\ VersionsDistinct
    /\ \A a \in Rows : asset[a].group # NoGroup => Founded(asset[a].group)
    /\ \A o \in Op : VersionIsNext(o)

\* What makes a row of bytes that the client has is over their object.
BytesAreShared(o) ==
  Makes(o) /\ op[o].hash # NoHash =>
    LET same == SameBytes(ClientOf[op[o].item], op[o].hash)
    IN /\ OpAt(o, "put") => same = {}
       /\ op[o].pc \in {"anchor", "version", "create"} =>
            \A a \in same : asset[a].url = op[o].url

BytesAreKnown ==
  NoOverlap => BytesAreStoredOnce /\ \A o \in Op : BytesAreShared(o)

LibraryInv ==
  /\ MediaInv
  /\ OverlapsAreKnown
  /\ MakersFitTheirKind
  /\ ObjectsAreSafe
  /\ PurgesTakeArchived
  /\ VersionsAreOrdered
  /\ BytesAreKnown
==============================================================================
