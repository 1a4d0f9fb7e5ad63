----------------------------- MODULE ShopDrafts -----------------------------
(***************************************************************************)
(* Products and their drafts in the TikTok Shop.  Two bulk tasks, each     *)
(* under the lock of its own task: one creates a draft of every product    *)
(* without a mapping, and of the mapped ones it is told to push again; the *)
(* other deletes mapped drafts and then their mappings.  Two requests,     *)
(* without any lock: the push of a single product, which asks for no       *)
(* mapping, and the enrichment of the inventory from the drafts, which     *)
(* maps each product to the draft that names it.                           *)
(***************************************************************************)
EXTENDS TaskRuntime, Sequences

CONSTANTS
  Items,       \* products that can be listed (with an image and an EAN)
  MaxDrafts    \* bound: drafts ever created; extra of a product

VARIABLES
  draft,       \* the drafts at TikTok, in the order of their ids
  mapped,      \* tiktok_product_map: product -> its draft, 0 without a row
  body,        \* worker -> what its body has read and is at
  unsaved,     \* drafts of single pushes that are not mapped yet
  fetched,     \* drafts an enrichment has fetched and may yet map
  extra        \* product -> pushes by name or by force, and enrichments

requestVars == <<unsaved, fetched>>

shopVars == <<taskVars, draft, mapped, body, requestVars, extra>>

-----------------------------------------------------------------------------
(* Types *)

DraftIds == 1..MaxDrafts

Draft == [item : Items, live : BOOLEAN]

(***************************************************************************)
(* todo: the products still to push; forced: those of them that had a      *)
(* mapping when it was read; targets: the drafts to delete and to unmap;   *)
(* new: the draft just created, of the product now.                        *)
(***************************************************************************)
Body ==
  [at : {"read", "push", "map", "delete", "unmap"}, todo : SUBSET Items,
   forced : SUBSET Items, targets : SUBSET DraftIds, new : 0..MaxDrafts, now : Items]

ASSUME ShopConstants ==
  Tasks = {"push", "delete"} /\ Items # {} /\ MaxDrafts \in Nat

NoBody ==
  [at |-> "read", todo |-> {}, forced |-> {}, targets |-> {}, new |-> 0,
   now |-> CHOOSE i \in Items : TRUE]

ShopInit ==
  /\ TaskInit
  /\ draft = << >>
  /\ mapped = [i \in Items |-> 0]
  /\ body = [w \in Workers |-> NoBody]
  /\ unsaved = {} /\ fetched = {}
  /\ extra = [i \in Items |-> 0]

-----------------------------------------------------------------------------
(* push_missing_image_inventory_to_tiktok_drafts *)

AllItems == Items

Unmapped == {i \in Items : mapped[i] = 0}

Mapped == {i \in Items : mapped[i] # 0}

(***************************************************************************)
(* again: the products whose mapping has one of the statuses to be forced. *)
(***************************************************************************)
ReadMaps(w, again) ==
  /\ InBody(w, "push") /\ body[w].at = "read"
  /\ again \subseteq Mapped
  /\ body' = [body EXCEPT ![w].at = "push", ![w].todo = Unmapped \cup again,
                          ![w].forced = again]
  /\ UNCHANGED <<taskVars, draft, mapped, requestVars, extra>>

(***************************************************************************)
(* product.create; the mapping is written afterwards, from the reply.      *)
(***************************************************************************)
NewDraft(i) ==
  /\ Len(draft) < MaxDrafts
  /\ draft' = Append(draft, [item |-> i, live |-> TRUE])

OneMore(i) ==
  /\ extra[i] < MaxDrafts
  /\ extra' = [extra EXCEPT ![i] = @ + 1]

CreateDraft(w, i) ==
  /\ InBody(w, "push") /\ body[w].at = "push" /\ i \in body[w].todo
  /\ NewDraft(i)
  /\ IF i \in body[w].forced THEN OneMore(i) ELSE UNCHANGED extra
  /\ body' = [body EXCEPT ![w].at = "map", ![w].new = Len(draft) + 1, ![w].now = i]
  /\ UNCHANGED <<taskVars, mapped, requestVars>>

(***************************************************************************)
(* An error of one product is noted, and the next one is pushed.           *)
(***************************************************************************)
PushRefused(w, i) ==
  /\ InBody(w, "push") /\ body[w].at = "push" /\ i \in body[w].todo
  /\ body' = [body EXCEPT ![w].todo = @ \ {i}]
  /\ UNCHANGED <<taskVars, draft, mapped, requestVars, extra>>

(***************************************************************************)
(* The draft is created, but its reply is lost or the mapping cannot be    *)
(* written.                                                                *)
(***************************************************************************)
MappingLost(w) ==
  /\ InBody(w, "push") /\ body[w].at = "map"
  /\ body' = [body EXCEPT ![w].at = "push", ![w].todo = @ \ {body[w].now}, ![w].new = 0]
  /\ UNCHANGED <<taskVars, draft, mapped, requestVars, extra>>

SaveMapping(w) ==
  /\ InBody(w, "push") /\ body[w].at = "map"
  /\ mapped' = [mapped EXCEPT ![body[w].now] = body[w].new]
  /\ body' = [body EXCEPT ![w].at = "push", ![w].todo = @ \ {body[w].now}, ![w].new = 0]
  /\ UNCHANGED <<taskVars, draft, requestVars, extra>>

PushDone(w) ==
  /\ InBody(w, "push") /\ body[w].at = "push" /\ body[w].todo = {}
  /\ BodyReturns(w)
  /\ body' = [body EXCEPT ![w] = NoBody]
  /\ UNCHANGED <<lock, overruns, draft, mapped, requestVars, extra>>

-----------------------------------------------------------------------------
(* delete_tiktok_products *)

(***************************************************************************)
(* targets: the mapped drafts, of the statuses asked for.                  *)
(***************************************************************************)
MappedDrafts == {mapped[i] : i \in Items} \ {0}

ReadTargets(w, targets) ==
  /\ InBody(w, "delete") /\ body[w].at = "read"
  /\ targets \subseteq MappedDrafts
  /\ IF targets = {}
     THEN BodyReturns(w) /\ UNCHANGED <<lock, overruns, body>>
     ELSE /\ body' = [body EXCEPT ![w].at = "delete", ![w].targets = targets]
          /\ UNCHANGED taskVars
  /\ UNCHANGED <<draft, mapped, requestVars, extra>>

DeleteDrafts(w) ==
  /\ InBody(w, "delete") /\ body[w].at = "delete"
  /\ draft' = [d \in DOMAIN draft |->
       IF d \in body[w].targets THEN [draft[d] EXCEPT !.live = FALSE] ELSE draft[d]]
  /\ body' = [body EXCEPT ![w].at = "unmap"]
  /\ UNCHANGED <<taskVars, mapped, requestVars, extra>>

(***************************************************************************)
(* A call that fails leaves the drafts and their mappings.                 *)
(***************************************************************************)
DeleteRefused(w) ==
  /\ InBody(w, "delete") /\ body[w].at = "delete"
  /\ BodyReturns(w)
  /\ body' = [body EXCEPT ![w] = NoBody]
  /\ UNCHANGED <<lock, overruns, draft, mapped, requestVars, extra>>

(***************************************************************************)
(* The mappings go by the ids of the deleted drafts, not by product.       *)
(***************************************************************************)
RemainingNone(w) == [i \in Items |-> 0]

Remaining(w) ==
  [i \in Items |-> IF mapped[i] \in body[w].targets THEN 0 ELSE mapped[i]]

Unmap(w) ==
  /\ InBody(w, "delete") /\ body[w].at = "unmap"
  /\ mapped' = Remaining(w)
  /\ BodyReturns(w)
  /\ body' = [body EXCEPT ![w] = NoBody]
  /\ UNCHANGED <<lock, overruns, draft, requestVars, extra>>

-----------------------------------------------------------------------------
(* The first read, or the last write, of a body raises: all else is caught *)
(* inside it.                                                              *)

Raise(w) ==
  /\ \/ worker[w].at = "body" /\ body[w].at = "read"
     \/ InBody(w, "delete") /\ body[w].at = "unmap"
  /\ BodyRaises(w)
  /\ body' = [body EXCEPT ![w] = NoBody]
  /\ UNCHANGED <<lock, overruns, draft, mapped, requestVars, extra>>

(***************************************************************************)
(* What a task does besides its body leaves the drafts alone; the body of  *)
(* a worker that dies is lost.                                             *)
(***************************************************************************)
DieInTask(w) ==
  /\ WorkerDies(w)
  /\ body' = [body EXCEPT ![w] = NoBody]
  /\ UNCHANGED <<draft, mapped, requestVars, extra>>

AroundBody(w) ==
  /\ LockStep(w) \/ \E t \in Tasks : Deliver(w, t)
  /\ UNCHANGED <<draft, mapped, body, requestVars, extra>>

RedisFails(w) ==
  /\ AcquireRaises(w) \/ ReleaseRaises(w)
  /\ UNCHANGED <<draft, mapped, body, requestVars, extra>>

BodyStep(w) ==
  \/ \E again \in SUBSET Items : ReadMaps(w, again)
  \/ SaveMapping(w) \/ PushDone(w)
  \/ \E i \in Items : CreateDraft(w, i) \/ PushRefused(w, i)
  \/ \E targets \in SUBSET DraftIds : ReadTargets(w, targets)
  \/ DeleteDrafts(w) \/ DeleteRefused(w) \/ Unmap(w)

-----------------------------------------------------------------------------
(* The requests *)

(***************************************************************************)
(* push_product_to_tiktok for one product, whether or not it has a draft.  *)
(***************************************************************************)
PushOne(i) ==
  /\ NewDraft(i) /\ OneMore(i)
  /\ unsaved' = unsaved \cup {Len(draft) + 1}
  /\ UNCHANGED <<taskVars, mapped, body, fetched>>

MapTo(d) == mapped' = [mapped EXCEPT ![draft[d].item] = d]

SaveOne(d) ==
  /\ d \in unsaved
  /\ MapTo(d)
  /\ unsaved' = unsaved \ {d}
  /\ UNCHANGED <<taskVars, draft, body, fetched, extra>>

OneLost(d) ==
  /\ d \in unsaved
  /\ unsaved' = unsaved \ {d}
  /\ UNCHANGED <<taskVars, draft, mapped, body, fetched, extra>>

(***************************************************************************)
(* enrich_inventory_from_tiktok_drafts lists the drafts, then writes a     *)
(* mapping for each that it can match to a product, whatever has become of *)
(* the draft, and of the product's mapping, meanwhile.                     *)
(***************************************************************************)
FetchDrafts ==
  /\ fetched' = fetched \cup {d \in DOMAIN draft : draft[d].live}
  /\ UNCHANGED <<taskVars, draft, mapped, body, unsaved, extra>>

MapFetched(d) ==
  /\ d \in fetched
  /\ MapTo(d) /\ OneMore(draft[d].item)
  /\ fetched' = fetched \ {d}
  /\ UNCHANGED <<taskVars, draft, body, unsaved>>

ShopRequest ==
  \/ \E i \in Items : PushOne(i)
  \/ \E d \in unsaved : SaveOne(d)
  \/ FetchDrafts
  \/ \E d \in fetched : MapFetched(d)

-----------------------------------------------------------------------------
(* Properties *)

ShopTypeOK ==
  /\ TaskTypeOK
  /\ draft \in Seq(Draft) /\ Len(draft) <= MaxDrafts
  /\ mapped \in [Items -> 0..MaxDrafts]
  /\ body \in [Workers -> Body]
  /\ unsaved \subseteq DOMAIN draft /\ fetched \subseteq DOMAIN draft
  /\ extra \in [Items -> 0..MaxDrafts]

LiveDrafts(i) == {d \in DOMAIN draft : draft[d].item = i /\ draft[d].live}

(***************************************************************************)
(* A product has one draft in the shop, and at most one more for each time *)
(* it was pushed by name or by force, or mapped by an enrichment: of the   *)
(* bulk pushes queued twice, or crossing a deletion or a request, each     *)
(* decides on mappings read before its first call.                         *)
(***************************************************************************)
DraftsAccounted == \A i \in Items : Cardinality(LiveDrafts(i)) <= 1 + extra[i]

(***************************************************************************)
(* A draft in the shop is mapped, or a push is about to map it; only a     *)
(* push by name or by force, or an enrichment, costs a draft its mapping,  *)
(* and one at most: the deletion of a mapping never takes one that was     *)
(* saved since it read.                                                    *)
(***************************************************************************)
BeingMapped(d) ==
  d \in unsaved \/ \E w \in Workers : body[w].new = d /\ body[w].at = "map"

Stray(i) == {d \in LiveDrafts(i) : mapped[i] # d /\ ~BeingMapped(d)}

StraysAccounted == \A i \in Items : Cardinality(Stray(i)) <= extra[i]
=============================================================================
