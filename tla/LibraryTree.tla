----------------------------- MODULE LibraryTree -----------------------------
(***************************************************************************)
(* The pages that browse the library by directory and by artist            *)
(* (src/web-ui/src/page/library_files.rs and library_artists.rs): a tree   *)
(* of the nodes the user has expanded, filled with what the server answers *)
(* (src/crates/server/src/metadata_commands.rs). An answer does not say    *)
(* what it answers: it goes to the node expanded last. It goes to every    *)
(* browser, too.                                                           *)
(*                                                                         *)
(* An item is the path it shows, a sequence of names: one name, but for    *)
(* the directories a search finds. A node is the sequence of the items     *)
(* from the top of the tree to it.                                         *)
(***************************************************************************)
EXTENDS Integers, Sequences, FiniteSets, SequencesExt

CONSTANTS
  Shelf,      \* Shelf[k][p]: items in directory p; albums of artist, songs of album p
  Hits,       \* Hits[k]: items the search term finds
  MaxPending, \* bound: questions that wait for an answer
  MaxSteps    \* bound: things the user, the network and other browsers do

Kinds == {"Files", "Artists"}
Terms == {"", "term"}

\* What an answer can hold; an item shows at least one name.
Items(k) == Hits[k] \cup UNION {Shelf[k][p] : p \in DOMAIN Shelf[k]}

ASSUME ShelfAssumption == /\ MaxPending \in Nat \ {0} /\ MaxSteps \in Nat
                          /\ Kinds = DOMAIN Shelf /\ Kinds = DOMAIN Hits
                          /\ \A k \in Kinds : <<>> \in DOMAIN Shelf[k] /\ <<>> \notin Items(k)

VARIABLES
  kind,     \* the page
  tree,     \* its nodes, the root <<>> among them
  current,  \* where the next answer goes
  typed,    \* the text of the search field
  asked,    \* the term of the last search, "" for browsing
  routed,   \* the term in the address of the page
  asks,     \* questions not yet answered
  linked,   \* the socket is open
  items,    \* the last answer, kept from page to page
  broken,   \* the page has aborted
  edited,   \* history: the search field was edited since the tree is new
  strayed,  \* history: since the tree is new an answer may have gone to a wrong row
  steps

link     == <<routed, linked>>
pageVars == <<kind, tree, current, typed, asked, link, asks, items, broken, edited, strayed, steps>>

\* A node whose place in the tree is gone.
Gone == << <<>> >>

Browse(k, p)    == [of |-> k, by |-> "Path", path |-> p]
Search(k)       == [of |-> k, by |-> "Term", path |-> <<>>]
RootQuery(k, t) == IF t = "" THEN Browse(k, <<>>) ELSE Search(k)

\* What the server answers.
Answer(q) == IF q.by = "Term" THEN Hits[q.of]
             ELSE IF q.path \in DOMAIN Shelf[q.of] THEN Shelf[q.of][q.path] ELSE {}

\* Rows with a directory, an artist or an album can be expanded.
Containers == {Last(p) : p \in DOMAIN Shelf[kind] \ {<<>>}}
Opens(n) == n # <<>> /\ Last(Last(n)) \in Containers

\* A directory is asked for by the path of its row in the tree, an artist and
\* an album by themselves.
Asked(n) == IF kind = "Files" THEN FlattenSeq(n) ELSE Last(n)

Children(t, n) == {m \in t : Len(m) = Len(n) + 1 /\ IsPrefix(n, m)}
Below(t, n)    == {m \in t : Len(m) > Len(n) /\ IsPrefix(n, m)}

PageInit ==
  /\ kind \in Kinds
  /\ items = Shelf[kind][<<>>]
  /\ tree = {<<>>} \cup {<<i>> : i \in items} /\ current = <<>>
  /\ typed = "" /\ asked = "" /\ routed = "" /\ asks = <<>> /\ linked = TRUE
  /\ broken = FALSE /\ edited = FALSE /\ strayed = FALSE /\ steps = 0

-----------------------------------------------------------------------------
(* The tree.                                                               *)

\* clear_children: current is lost with the subtree it is in.
Kept(cur, dead) == IF cur \in dead THEN Gone ELSE cur

\* The items replace the children of the node current at the time, with a text in
\* the search field of the files page those of the root. Nothing can be put under
\* a node that is gone: the page aborts.
Fill(t, cur, is, text) ==
  LET node == IF kind' = "Files" /\ text # "" THEN <<>> ELSE cur
  IN IF node = Gone
     THEN /\ broken' = (is # {})
          /\ tree' = t /\ current' = cur
     ELSE /\ tree' = (t \ Below(t, node)) \cup {Append(node, i) : i \in is}
          /\ current' = Kept(cur, Below(t, node))
          /\ broken' = FALSE

\* What is sent while the socket is closed is lost.
Ask(q) == asks' = IF linked THEN Append(asks, q) ELSE asks

\* Who does not wait for an answer finds it in another row.
Hurried == strayed' = (strayed \/ asks # <<>>)

\* Mutant: the row expanded is not remembered.
NotMarked(n) ==
  /\ tree' = UNION {Below(tree, m) : m \in {n}} \cup (tree \ UNION {Below(tree, m) : m \in Children(tree, Front(n)) \ {n}})
  /\ current' = Kept(current, tree \ tree')
  /\ Ask(Browse(kind, Asked(n)))

\* toggle_dir on a closed row: its siblings are closed, and it waits for the answer.
Expand(n) ==
  /\ tree' = tree \ UNION {Below(tree, m) : m \in Children(tree, Front(n)) \ {n}}
  /\ current' = n
  /\ Ask(Browse(kind, Asked(n)))

Collapse(n) ==
  /\ tree' = tree \ Below(tree, n)
  /\ current' = Kept(current, Below(tree, n))
  /\ UNCHANGED asks

-----------------------------------------------------------------------------
(* The user.                                                               *)

Happens == ~broken /\ steps < MaxSteps /\ steps' = steps + 1
Acting  == Happens /\ Len(asks) < MaxPending

Toggle(n) ==
  /\ Acting /\ n \in tree /\ Opens(n) /\ Hurried
  /\ IF Children(tree, n) # {} THEN Collapse(n) ELSE Expand(n)
  /\ UNCHANGED <<kind, typed, asked, link, items, broken, edited>>

\* The effect that fills the tree of the files page reads the search field, too.
Type(t) ==
  /\ Acting /\ typed # t /\ typed' = t /\ edited' = TRUE
  /\ UNCHANGED <<kind, asked, link, asks, items, strayed>>
  /\ IF kind = "Files" THEN Fill(tree, current, items, t) ELSE UNCHANGED <<tree, current, broken>>

\* Mutant: the artists page searches in the tree it has.
SearchesInTree(t) == UNCHANGED <<tree, current, edited, strayed>>

\* do_search: a new tree, but for a term on the files page.
SearchTree(t) ==
  IF kind = "Files" /\ t # "" THEN Hurried /\ UNCHANGED <<tree, current, edited>>
  ELSE tree' = {<<>>} /\ current' = <<>> /\ edited' = FALSE /\ strayed' = FALSE

DoSearch ==
  /\ Acting
  /\ SearchTree(typed) /\ Ask(RootQuery(kind, typed)) /\ asked' = typed
  /\ UNCHANGED <<kind, typed, link, items, broken>>

ClearSearch ==
  /\ Acting /\ edited' = FALSE /\ strayed' = FALSE
  /\ typed' = "" /\ asked' = "" /\ Ask(Browse(kind, <<>>))
  /\ UNCHANGED <<kind, link, items>>
  /\ IF kind = "Files" THEN Fill({<<>>}, <<>>, items, "")
     ELSE tree' = {<<>>} /\ current' = <<>> /\ UNCHANGED broken

\* A page that is entered, perhaps with a term in its address, shows the last
\* answer until its own arrives.
Enter(k, t) ==
  /\ Acting /\ edited' = FALSE /\ strayed' = FALSE
  /\ kind' = k /\ typed' = t /\ asked' = t /\ routed' = t /\ Ask(RootQuery(k, t))
  /\ Fill({<<>>}, <<>>, items, t)
  /\ UNCHANGED <<linked, items>>

-----------------------------------------------------------------------------
(* The socket.                                                             *)

\* The effect that shows the answers.
Show(is) == items' = is /\ Fill(tree, current, is, typed)

Answered ==
  /\ ~broken /\ linked /\ asks # <<>>
  /\ UNCHANGED <<kind, typed, asked, link, edited, strayed, steps>>
  /\ Show(Answer(Head(asks))) /\ asks' = Tail(asks)

\* The answer to what another browser asked.
Overheard ==
  /\ Happens /\ linked /\ strayed' = TRUE
  /\ UNCHANGED <<kind, typed, asked, link, asks, edited>>
  /\ \E k \in Kinds : \E is \in {Hits[k]} \cup {Shelf[k][p] : p \in DOMAIN Shelf[k]} : Show(is)

\* Answers on their way are lost, and questions the server has not read.
Disconnected ==
  /\ Happens /\ linked /\ linked' = FALSE
  /\ \E i, j \in 0..Len(asks) : asks' = SubSeq(asks, i + 1, j)
  /\ UNCHANGED <<kind, tree, current, typed, asked, routed, items, broken, edited, strayed>>

\* The effect that asks for the root depends on the socket: it runs again, for the
\* term in the address, and the answer goes to the row expanded last.
Reconnected ==
  /\ ~broken /\ ~linked /\ linked' = TRUE
  /\ UNCHANGED <<kind, routed, items, edited, steps>>
  /\ asks' = Append(asks, RootQuery(kind, routed)) /\ asked' = routed
  /\ typed' = IF routed = "" THEN typed ELSE routed
  /\ IF kind = "Files" /\ routed # "" THEN Fill(tree, current, items, routed)
     ELSE UNCHANGED <<tree, current, broken>>
  /\ strayed' = (strayed \/ current # <<>>)

-----------------------------------------------------------------------------
PageNext ==
  \/ \E n \in tree : Toggle(n)
  \/ \E t \in Terms : Type(t)
  \/ DoSearch \/ ClearSearch
  \/ Answered \/ Overheard \/ Disconnected \/ Reconnected
  \/ \E k \in Kinds, t \in Terms : Enter(k, t)

PageSpec == PageInit /\ [][PageNext]_pageVars

-----------------------------------------------------------------------------
(* Properties.                                                             *)

PageTypeOK ==
  /\ kind \in Kinds /\ <<>> \in tree /\ current \in tree \cup {Gone}
  /\ {typed, asked, routed} \subseteq Terms /\ {linked, broken, strayed} \subseteq BOOLEAN

\* No page aborts, and under every open row the tree shows what that directory,
\* artist or album holds. On the files page this ends when the search field is
\* edited by hand, and what a search finds there is a list, not a tree. On both it
\* ends, until the tree is a new one, when a row is opened or closed while an answer
\* is awaited, when another browser's answer comes, and when the socket is opened
\* again after a row was expanded: those answers go to the row expanded last.
Browsable ==
  ~strayed /\ (kind = "Files" => ~edited /\ asked = "") =>
    /\ ~broken
    /\ asks = <<>> /\ linked => Children(tree, <<>>) = {<<i>> : i \in Answer(RootQuery(kind, asked))}
    /\ \A n \in tree \ {<<>>} :
         Children(tree, n) \in {{}, {Append(n, i) : i \in Answer(Browse(kind, Asked(n)))}}
=============================================================================
