------------------------------- MODULE MenuTree -------------------------------
(***************************************************************************)
(* cmd/crm/menusvc: the records of the menu become a tree (BuildTree), and *)
(* pkg/web makes of the tree the menu one user sees on one page            *)
(* (BuildMenu): permitted items, resolved URLs, the active path.           *)
(*                                                                         *)
(* A URL is the sequence of its segments, or NoURL; labels, icons and      *)
(* badges are left out.                                                    *)
(***************************************************************************)
EXTENDS Integers, FiniteSets, SequencesExt

CONSTANTS
  Stores,    \* what the store may hold: sequences of records
             \*   [id, parent, position, object, hide, url, route]
  Grants,    \* what a user may be permitted: sets of objects
  Paths,     \* pages
  Routes(_), \* the URL of a route's name, NoURL when there is none
  NoURL, NoObject

VARIABLES
  recs,      \* the records read
  built,     \* "no", "error", "tree"
  menuTree,  \* the items of the top level, each [rec, children]
  asked, grants, current, \* a request came: the user's grants, the page
  menu       \* what is shown: items [rec, url, active, children], or <<>>

vars == <<recs, built, menuTree, asked, grants, current, menu>>

Init ==
  /\ recs \in Stores /\ built = "no" /\ menuTree = <<>>
  /\ asked = FALSE /\ grants = {} /\ current = <<>> /\ menu = <<>>

-----------------------------------------------------------------------------
Ids == {recs[i].id : i \in DOMAIN recs}

(* Every level is sorted by position, and by id where positions are equal.   *)
Before(r, s) == r.position < s.position \/ (r.position = s.position /\ r.id < s.id)
Level(parent) == SetToSortSeq({r \in ToSet(recs) : r.parent = parent}, Before)

RECURSIVE Items(_)
Items(parent) ==
  LET level == Level(parent)
  IN [i \in DOMAIN level |-> [rec |-> level[i], children |-> Items(level[i].id)]]

RECURSIVE Visited(_)
Visited(parent) ==
  LET children == {r.id : r \in ToSet(Level(parent))}
  IN children \cup UNION {Visited(c) : c \in children}

Malformed ==
  \/ \E i \in DOMAIN recs : recs[i].id <= 0
  \/ Cardinality(Ids) # Len(recs)
  \/ \E i \in DOMAIN recs : recs[i].parent # 0 /\ recs[i].parent \notin Ids

(* Records in a cycle are not reached from the top.                          *)
BuildTree ==
  /\ built = "no"
  /\ LET error == Malformed \/ Cardinality(Visited(0)) # Len(recs) IN
     /\ built' = IF error THEN "error" ELSE "tree"
     /\ menuTree' = IF error THEN <<>> ELSE Items(0)
  /\ UNCHANGED <<recs, asked, grants, current, menu>>

-----------------------------------------------------------------------------
(* Can; an item without an object is everyone's. *)
Can(granted, r) == r.object = NoObject \/ r.object \in granted

ResolveURL(r) == IF Routes(r.route) # NoURL THEN Routes(r.route) ELSE r.url

(* The page itself or one below it; "/" is above nothing.                    *)
IsActive(page, url) == url # NoURL /\ (page = url \/ (url # <<>> /\ IsPrefix(url, page)))

(* Mutant: a heading keeps the link its own permission refuses. *)
ShownURLAlways(granted, r) == ResolveURL(r)

(* A heading stays for its children's sake, without the link. *)
ShownURL(granted, r) == IF r.hide /\ ~Can(granted, r) THEN NoURL ELSE ResolveURL(r)

(* Children first; then the item, if it is permitted, or if it is a heading  *)
(* and a child is left.                                                      *)
RECURSIVE Filter(_, _, _)
Filter(items, granted, page) ==
  LET Shown(it) ==
        LET children == Filter(it.children, granted, page)
            url == ShownURL(granted, it.rec)
        IN [rec |-> it.rec, url |-> url, children |-> children,
            active |-> IsActive(page, url) \/ \E i \in DOMAIN children : children[i].active]
      Include(it) == IF it.rec.hide THEN Filter(it.children, granted, page) # <<>> ELSE Can(granted, it.rec)
      kept == SelectSeq(items, Include)
  IN [i \in DOMAIN kept |-> Shown(kept[i])]

(* A request: who asks, and for which page. *)
BuildMenu ==
  /\ built = "tree"
  /\ \E granted \in Grants, page \in Paths :
       /\ asked' = TRUE /\ grants' = granted /\ current' = page
       /\ menu' = Filter(menuTree, granted, page)
  /\ UNCHANGED <<recs, built, menuTree>>

Next == BuildTree \/ BuildMenu

Spec == Init /\ [][Next]_vars

-----------------------------------------------------------------------------
(* Flatten: the items in the order of a depth-first walk, with their depths. *)
RECURSIVE Walk(_, _)
Walk(items, d) ==
  FlattenSeq([i \in DOMAIN items |-> <<[depth |-> d, item |-> items[i]]>> \o Walk(items[i].children, d + 1)])
Flatten(items) == Walk(items, 0)

(* The records above one, from a store whose parents exist. *)
RECURSIVE Above(_, _)
Above(r, n) ==
  IF r.parent = 0 \/ n = 0 THEN {}
  ELSE LET p == CHOOSE s \in ToSet(recs) : s.id = r.parent IN {p} \cup Above(p, n - 1)
IsAcyclic == \A i \in DOMAIN recs : recs[i] \notin Above(recs[i], Len(recs))

(* Each record is in the tree exactly once, under its parent and after its   *)
(* elder siblings; records that make no tree make an error.                  *)
TreeIsRecords ==
  LET flat == Flatten(menuTree) IN
  /\ built = "tree" =>
       /\ ~Malformed /\ IsAcyclic
       /\ Len(flat) = Len(recs) /\ {flat[i].item.rec : i \in DOMAIN flat} = ToSet(recs)
       /\ \A i \in DOMAIN flat : flat[i].depth = Cardinality(Above(flat[i].item.rec, Len(recs)))
       /\ \A i, j \in DOMAIN flat :
            i < j /\ flat[i].item.rec.parent = flat[j].item.rec.parent => Before(flat[i].item.rec, flat[j].item.rec)
  /\ built = "error" => Malformed \/ ~IsAcyclic

(* Nothing is linked that the user may not open; a heading shown leads to an *)
(* item that is no heading; whatever the user may open below what he may     *)
(* open is shown; and exactly the items on the way to the current page are   *)
(* active.                                                                   *)
MenuIsPermitted ==
  LET flat == Flatten(menu)
      Shown == {flat[i].item : i \in DOMAIN flat}
      Below(item) == LET below == Flatten(item.children) IN {below[i].item : i \in DOMAIN below}
      Open(r) == ~r.hide /\ Can(grants, r)
  IN /\ \A item \in Shown :
          /\ item.url # NoURL => Can(grants, item.rec)
          /\ item.rec.hide => \E other \in Below(item) : ~other.rec.hide
          /\ item.active <=> \E other \in {item} \cup Below(item) : IsActive(current, other.url)
     /\ asked =>
          \A r \in ToSet(recs) :
            Open(r) /\ (\A above \in Above(r, Len(recs)) : above.hide \/ Open(above)) =>
              \E item \in Shown : item.rec = r

MenuTells == TreeIsRecords /\ MenuIsPermitted
===============================================================================
