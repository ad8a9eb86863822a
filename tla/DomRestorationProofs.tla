-------------------------- MODULE DomRestorationProofs --------------------------
(***************************************************************************)
(* What the adaptations leave of the page, for every set of types and      *)
(* sections and every number of episodes: each node that no two of them    *)
(* shared is as the host rendered it once none holds it, and the sections  *)
(* of the drawer are as the user left them.                                *)
(***************************************************************************)
EXTENDS UserSections, UIActuatorProofs

(* A node of the host, the page as steps rewrite it, what a cleanup keeps.  *)
Attributes == [host: {"plain", "active"}, tokens: SUBSET Types, mark: 0..MaxEpisodes,
               expanded: {"absent", "true", "false"}]
Pages == [dom: [Elements -> Attributes], open: [Sections -> BOOLEAN]]
Records == [el: Elements, class: {"plain", "active"} \X SUBSET Types, markEl: Elements,
            mark: 0..MaxEpisodes, folded: SUBSET Sections, detached: BOOLEAN]
DomTypes ==
  /\ mounted \in BOOLEAN /\ Page \in Pages
  /\ saved \in [Types -> Records]
  /\ disturbed \subseteq Elements /\ described \subseteq Elements

(* What an adaptation puts its class and its mark on is mounted together,   *)
(* a simplification's with the Analytics page, and the banner puts nothing  *)
(* on the host's nodes.                                                     *)
MountedTogether == \A t \in Types : saved[t].el \in OnPage <=> saved[t].markEl \in OnPage
DrawerHeld ==
  "simplify_options" \in Types =>
    saved["simplify_options"].detached \/ saved["simplify_options"].el \in OnPage
BannerApart == "offer_assistance" \in Types => saved["offer_assistance"].detached

(* As rendered, the class of a node and its mark.                           *)
PlainClass(a, el) == a.host = Rendered(el, mounted).host /\ a.tokens = {}
Unmarked(a) == a.mark = None

(* An undisturbed node has one holder at most, whose cleanup would put back *)
(* what was rendered; what that holder left alone is still so.              *)
OneHolder ==
  \A el \in Elements \ disturbed : \A t, u \in LiveHolders(el) : t = u
NodesPlain ==
  \A el \in Elements \ disturbed :
    LiveHolders(el) = {} => PlainClass(dom[el], el) /\ Unmarked(dom[el])
HoldersRestore ==
  \A el \in Elements \ disturbed : \A t \in LiveHolders(el) :
    /\ IF el = saved[t].el
       THEN saved[t].class[1] = Rendered(el, mounted).host /\ saved[t].class[2] = {}
       ELSE PlainClass(dom[el], el)
    /\ IF el = saved[t].markEl THEN saved[t].mark = None ELSE Unmarked(dom[el])

DomInv ==
  /\ ActuatorInv /\ DomTypes
  /\ MountedTogether /\ DrawerHeld /\ BannerApart
  /\ OneHolder /\ HoldersRestore /\ NodesPlain
(* Where no tooltip rewrote it, aria-expanded says what the host holds.     *)
AriaFollows == \A s \in Sections \ tipped : dom[s].expanded = Attr(open[s])

(* A live simplification keeps in its record what it closed of the sections *)
(* the user left open; the user has not touched them since.                 *)
Folding == Simplified /\ ~saved["simplify_options"].detached
FoldedByIt(s) == Folding /\ s \in saved["simplify_options"].folded
FoldedAreClosed ==
  \A s \in Sections \ (disturbed \cup tipped) :
    IF FoldedByIt(s) THEN wanted[s] /\ ~open[s] ELSE open[s] = wanted[s]
WantedInv == DomInv /\ wanted \in [Sections -> BOOLEAN] /\ AriaFollows /\ FoldedAreClosed

(***************************************************************************)
(* What the operations on a page do to its nodes.                           *)
(***************************************************************************)
SameClass(a, b) == a.host = b.host /\ a.tokens = b.tokens
ClassIs(a, class) == a.host = class[1] /\ a.tokens = class[2]

(* The class of a node becomes what it is set to, and nothing else changes. *)
LEMMA SetClassEffect ==
  ASSUME NEW p \in Pages, NEW el \in Elements, NEW class \in {"plain", "active"} \X SUBSET Types
  PROVE  /\ SetClass(p, el, class) \in Pages /\ SetClass(p, el, class).open = p.open
         /\ \A n \in Elements :
              LET a == SetClass(p, el, class).dom[n] IN
              /\ IF n = el THEN ClassIs(a, class) ELSE SameClass(a, p.dom[n])
              /\ a.mark = p.dom[n].mark /\ a.expanded = p.dom[n].expanded
<1> DEFINE a == [p.dom[el] EXCEPT !.host = class[1], !.tokens = class[2]]
<1>p. /\ p.dom \in [Elements -> Attributes] /\ p.open \in [Sections -> BOOLEAN]
      /\ p = [dom |-> p.dom, open |-> p.open]
  BY DEF Pages
<1>1. SetClass(p, el, class) = [dom |-> [p.dom EXCEPT ![el] = a], open |-> p.open]
  BY <1>p DEF SetClass, Pages
<1>2. /\ p.dom[el] \in Attributes /\ class[1] \in {"plain", "active"}
      /\ class[2] \in SUBSET Types
  BY <1>p
<1>3. /\ a \in Attributes /\ ClassIs(a, class)
      /\ a.mark = p.dom[el].mark /\ a.expanded = p.dom[el].expanded
  BY <1>2 DEF Attributes, ClassIs
<1> HIDE DEF a
<1> QED
  BY <1>p, <1>1, <1>3 DEF Pages, SameClass

(* The mark of a node becomes what it is set to, and nothing else changes.  *)
LEMMA SetMarkEffect ==
  ASSUME NEW p \in Pages, NEW el \in Elements, NEW mark \in 0..MaxEpisodes
  PROVE  /\ SetMark(p, el, mark) \in Pages /\ SetMark(p, el, mark).open = p.open
         /\ \A n \in Elements :
              LET a == SetMark(p, el, mark).dom[n] IN
              /\ SameClass(a, p.dom[n]) /\ a.expanded = p.dom[n].expanded
              /\ a.mark = IF n = el THEN mark ELSE p.dom[n].mark
<1> DEFINE a == [p.dom[el] EXCEPT !.mark = mark]
<1>p. /\ p.dom \in [Elements -> Attributes] /\ p.open \in [Sections -> BOOLEAN]
      /\ p = [dom |-> p.dom, open |-> p.open]
  BY DEF Pages
<1>1. SetMark(p, el, mark) = [dom |-> [p.dom EXCEPT ![el] = a], open |-> p.open]
  BY <1>p DEF SetMark, Pages
<1>2. p.dom[el] \in Attributes
  BY <1>p
<1>3. /\ a \in Attributes /\ SameClass(a, p.dom[el])
      /\ a.mark = mark /\ a.expanded = p.dom[el].expanded
  BY <1>2 DEF Attributes, SameClass
<1> HIDE DEF a
<1> QED
  BY <1>p, <1>1, <1>3 DEF Pages, SameClass

(* Clicks flip the sections clicked.                                        *)
LEMMA ClickAllEffect ==
  ASSUME NEW p \in Pages, NEW S
  PROVE  /\ ClickAll(p, S) \in Pages /\ ClickAll(p, S).dom = p.dom
         /\ \A s \in Sections :
              ClickAll(p, S).open[s] = IF s \in S THEN ~p.open[s] ELSE p.open[s]
<1> DEFINE o == [s \in Sections |-> IF s \in S THEN ~p.open[s] ELSE p.open[s]]
<1>p. /\ p.dom \in [Elements -> Attributes] /\ p.open \in [Sections -> BOOLEAN]
      /\ p = [dom |-> p.dom, open |-> p.open]
  BY DEF Pages
<1>1. ClickAll(p, S) = [dom |-> p.dom, open |-> o]
  BY <1>p DEF ClickAll, Pages
<1>2. o \in [Sections -> BOOLEAN]
  BY <1>p
<1>3. \A s \in Sections : o[s] = IF s \in S THEN ~p.open[s] ELSE p.open[s]
  OBVIOUS
<1> HIDE DEF o
<1> QED
  BY <1>p, <1>1, <1>2, <1>3 DEF Pages

(***************************************************************************)
(* What the cleanups put back.                                              *)
(***************************************************************************)
IsPlain(a, el) == PlainClass(a, el) /\ Unmarked(a)
SameMarks(a, b) == SameClass(a, b) /\ a.mark = b.mark

(* A cleanup puts back the class, the mark and the clicks of its record.    *)
LEMMA CleanupEffect ==
  ASSUME DomTypes, NEW p \in Pages, NEW t \in Types
  PROVE  LET q == Cleanup(p, t)
             r == saved[t] IN
         /\ q \in Pages
         /\ r.detached => q = p
         /\ ~r.detached => \A n \in Elements :
              /\ IF n = r.el THEN ClassIs(q.dom[n], r.class) ELSE SameClass(q.dom[n], p.dom[n])
              /\ q.dom[n].mark = IF n = r.markEl THEN r.mark ELSE p.dom[n].mark
              /\ q.dom[n].expanded =
                   IF t = "expand_tooltip" /\ n = r.el THEN "absent" ELSE p.dom[n].expanded
         /\ ~r.detached => \A s \in Sections :
              q.open[s] = IF t = "simplify_options" /\ s \in r.folded /\ p.dom[s].expanded # "true"
                          THEN ~p.open[s] ELSE p.open[s]
<1> DEFINE r == saved[t]
           classed == SetClass(p, r.el, r.class)
           shut == {s \in r.folded : p.dom[s].expanded # "true"}
           closed == [classed EXCEPT !.dom[r.el].expanded = "absent"]
           undone == IF t = "simplify_options" THEN ClickAll(classed, shut)
                     ELSE IF t = "expand_tooltip" THEN closed ELSE classed
<1>r. /\ r.el \in Elements /\ r.class \in {"plain", "active"} \X SUBSET Types
      /\ r.markEl \in Elements /\ r.mark \in 0..MaxEpisodes /\ r.folded \in SUBSET Sections
      /\ r.detached \in BOOLEAN
  BY DEF DomTypes, Records
<1>q. Cleanup(p, t) = IF r.detached THEN p ELSE SetMark(undone, r.markEl, r.mark)
  BY DEF Cleanup
<1> HIDE DEF r
<1>k. classed = SetClass(p, r.el, r.class)
  OBVIOUS
<1> HIDE DEF classed
<1>1. /\ classed \in Pages /\ classed.open = p.open
      /\ \A n \in Elements :
           /\ IF n = r.el THEN ClassIs(classed.dom[n], r.class)
                          ELSE SameClass(classed.dom[n], p.dom[n])
           /\ classed.dom[n].mark = p.dom[n].mark
           /\ classed.dom[n].expanded = p.dom[n].expanded
  BY <1>r, <1>k, SetClassEffect
<1>2. /\ closed \in Pages /\ closed.open = p.open
      /\ \A n \in Elements :
           /\ SameMarks(closed.dom[n], classed.dom[n])
           /\ closed.dom[n].expanded = IF n = r.el THEN "absent" ELSE p.dom[n].expanded
  <2> DEFINE a == [classed.dom[r.el] EXCEPT !.expanded = "absent"]
  <2>1. /\ classed.dom \in [Elements -> Attributes] /\ classed.open \in [Sections -> BOOLEAN]
        /\ classed = [dom |-> classed.dom, open |-> classed.open]
    BY <1>1 DEF Pages
  <2>2. closed = [dom |-> [classed.dom EXCEPT ![r.el] = a], open |-> classed.open]
    BY <2>1, <1>r
  <2>3. classed.dom[r.el] \in Attributes
    BY <2>1, <1>r
  <2>4. a \in Attributes /\ SameMarks(a, classed.dom[r.el]) /\ a.expanded = "absent"
    BY <2>3 DEF Attributes, SameMarks, SameClass
  <2> HIDE DEF a, closed
  <2> QED
    BY <2>1, <2>2, <2>4, <1>1, <1>r DEF Pages, SameMarks, SameClass
<1> HIDE DEF closed
<1>3. /\ ClickAll(classed, shut) \in Pages /\ ClickAll(classed, shut).dom = classed.dom
      /\ \A s \in Sections :
           ClickAll(classed, shut).open[s] = IF s \in shut THEN ~p.open[s] ELSE p.open[s]
  BY <1>1, <1>r, ClickAllEffect
<1>4. /\ undone \in Pages
      /\ \A n \in Elements :
           /\ SameMarks(undone.dom[n], classed.dom[n])
           /\ undone.dom[n].expanded =
                IF t = "expand_tooltip" /\ n = r.el THEN "absent" ELSE p.dom[n].expanded
      /\ \A s \in Sections :
           undone.open[s] = IF t = "simplify_options" /\ s \in shut THEN ~p.open[s] ELSE p.open[s]
  <2>1. CASE t = "simplify_options"
    BY <2>1, <1>1, <1>3 DEF SameMarks, SameClass
  <2>2. CASE t = "expand_tooltip"
    <3>1. undone = closed
      BY <2>2
    <3> QED
      BY <2>2, <3>1, <1>1, <1>2 DEF SameMarks, SameClass
  <2>3. CASE t \notin {"simplify_options", "expand_tooltip"}
    <3>1. undone = classed
      BY <2>3
    <3> QED
      BY <2>3, <3>1, <1>1 DEF SameMarks, SameClass
  <2> QED
    BY <2>1, <2>2, <2>3
<1>s. \A s \in Sections : s \in shut <=> s \in r.folded /\ p.dom[s].expanded # "true"
  OBVIOUS
<1> HIDE DEF undone, shut
<1>5. LET q == SetMark(undone, r.markEl, r.mark) IN
      /\ q \in Pages /\ q.open = undone.open
      /\ \A n \in Elements :
           /\ SameClass(q.dom[n], undone.dom[n]) /\ q.dom[n].expanded = undone.dom[n].expanded
           /\ q.dom[n].mark = IF n = r.markEl THEN r.mark ELSE undone.dom[n].mark
  BY <1>4, <1>r, SetMarkEffect
<1>6. CASE r.detached
  BY <1>6, <1>q DEF r
<1>7. CASE ~r.detached
  <2> DEFINE q == Cleanup(p, t)
  <2>1. q = SetMark(undone, r.markEl, r.mark)
    BY <1>7, <1>q
  <2>2. /\ q \in Pages /\ q.open = undone.open
        /\ \A n \in Elements :
             /\ SameClass(q.dom[n], undone.dom[n]) /\ q.dom[n].expanded = undone.dom[n].expanded
             /\ q.dom[n].mark = IF n = r.markEl THEN r.mark ELSE undone.dom[n].mark
    BY <1>5, <2>1
  <2> HIDE DEF q
  <2>3. \A n \in Elements :
          /\ IF n = r.el THEN ClassIs(q.dom[n], r.class) ELSE SameClass(q.dom[n], p.dom[n])
          /\ q.dom[n].mark = IF n = r.markEl THEN r.mark ELSE p.dom[n].mark
          /\ q.dom[n].expanded =
               IF t = "expand_tooltip" /\ n = r.el THEN "absent" ELSE p.dom[n].expanded
    BY <2>2, <1>1, <1>4 DEF SameMarks, SameClass, ClassIs
  <2>4. \A s \in Sections :
          q.open[s] = IF t = "simplify_options" /\ s \in r.folded /\ p.dom[s].expanded # "true"
                      THEN ~p.open[s] ELSE p.open[s]
    BY <2>2, <1>4, <1>s
  <2> QED
    BY <1>7, <2>2, <2>3, <2>4 DEF q, r
<1> QED
  BY <1>6, <1>7, <1>r

(* The sections whose state the cleanups of S, up to the episode e, flip.   *)
Undone(S, e) ==
  {s \in Sections : /\ FoldedByIt(s) /\ "simplify_options" \in S
                    /\ active["simplify_options"] <= e}
(* The element a live tooltip still attached is on, and whether its cleanup *)
(* is among those of S up to the episode e.                                 *)
Tipping(n) ==
  /\ "expand_tooltip" \in Types /\ active["expand_tooltip"] # None
  /\ ~saved["expand_tooltip"].detached /\ n = saved["expand_tooltip"].el
Bares(S, e, n) == Tipping(n) /\ "expand_tooltip" \in S /\ active["expand_tooltip"] <= e
(* A page after those cleanups: the undisturbed nodes they held are as      *)
(* rendered, the others as before; and so are the sections no tooltip       *)
(* marked, but for the clicks.                                              *)
Restores(S, e, q) ==
  /\ q \in Pages
  /\ \A n \in Elements \ disturbed :
       IF \E t \in LiveHolders(n) \cap S : active[t] <= e THEN IsPlain(q.dom[n], n)
       ELSE SameMarks(q.dom[n], dom[n])
  /\ \A n \in Elements :
       q.dom[n].expanded = IF Bares(S, e, n) THEN "absent" ELSE dom[n].expanded
  /\ \A s \in Sections : dom[s].expanded = Attr(open[s]) /\ (FoldedByIt(s) => ~open[s])
                           => q.open[s] = IF s \in Undone(S, e) THEN ~open[s] ELSE open[s]

(* Before the first cleanup the page is as it is.                           *)
LEMMA NothingRestored ==
  ASSUME DomInv, NEW S \in SUBSET Types
  PROVE  Restores(S, 0, Page)
<1>1. Page \in Pages /\ Page.dom = dom /\ Page.open = open
  BY DEF DomInv, DomTypes, Page
<1>2. \A n \in Elements : \A t \in LiveHolders(n) : active[t] \in Nat /\ active[t] # 0
  BY ActuatorAssumption DEF DomInv, ActuatorInv, TypeOK, LiveHolders, None
<1>3. \A s \in Sections : s \notin Undone(S, 0)
  BY ActuatorAssumption
  DEF DomInv, ActuatorInv, TypeOK, Undone, FoldedByIt, Folding, Simplified, None
<1>4. \A n \in Elements : ~ \E t \in LiveHolders(n) \cap S : active[t] <= 0
  BY <1>2
<1>5. \A n \in Elements : ~Bares(S, 0, n)
  BY ActuatorAssumption DEF DomInv, ActuatorInv, TypeOK, Bares, Tipping, None
<1> QED
  BY <1>1, <1>3, <1>4, <1>5 DEF Restores, SameMarks, SameClass

(* An episode without an adaptation in S changes nothing.                   *)
LEMMA EpisodeWithoutCleanup ==
  ASSUME DomInv, NEW S \in SUBSET Types, NEW e \in Nat, AdaptedIn(S, e + 1) = {},
         NEW q, Restores(S, e, q)
  PROVE  Restores(S, e + 1, q)
<1>1. \A t \in S : active[t] \in Nat /\ active[t] # e + 1
  BY ActuatorAssumption DEF DomInv, ActuatorInv, TypeOK, AdaptedIn
<1>2. \A t \in S : active[t] <= e + 1 <=> active[t] <= e
  BY <1>1
<1>3. Undone(S, e + 1) = Undone(S, e)
  BY <1>2 DEF Undone
<1>4. \A n \in Elements :
        (\E t \in LiveHolders(n) \cap S : active[t] <= e + 1)
          <=> \E t \in LiveHolders(n) \cap S : active[t] <= e
  BY <1>2
<1>5. \A n \in Elements : Bares(S, e + 1, n) <=> Bares(S, e, n)
  BY <1>2 DEF Bares
<1> QED
  BY <1>3, <1>4, <1>5 DEF Restores

(* The cleanup of an episode restores what its adaptation held.             *)
LEMMA EpisodeWithCleanup ==
  ASSUME DomInv, NEW S \in SUBSET Types, NEW e \in Nat, e + 1 <= MaxEpisodes,
         NEW t \in S, active[t] = e + 1,
         NEW q, Restores(S, e, q)
  PROVE  Restores(S, e + 1, Cleanup(q, t))
<1> DEFINE r == saved[t]
           c == Cleanup(q, t)
<1>q. q \in Pages
  BY DEF Restores
<1>c. /\ c \in Pages
      /\ r.detached => c = q
      /\ ~r.detached => \A n \in Elements :
           /\ IF n = r.el THEN ClassIs(c.dom[n], r.class) ELSE SameClass(c.dom[n], q.dom[n])
           /\ c.dom[n].mark = IF n = r.markEl THEN r.mark ELSE q.dom[n].mark
           /\ c.dom[n].expanded =
                IF t = "expand_tooltip" /\ n = r.el THEN "absent" ELSE q.dom[n].expanded
      /\ ~r.detached => \A s \in Sections :
           c.open[s] = IF t = "simplify_options" /\ s \in r.folded /\ q.dom[s].expanded # "true"
                       THEN ~q.open[s] ELSE q.open[s]
  BY <1>q, CleanupEffect DEF DomInv
<1> HIDE DEF c
<1>r. r.detached \in BOOLEAN
  BY DEF DomInv, DomTypes, Records
<1>a. \A u \in S : active[u] \in Nat /\ (active[u] = e + 1 <=> u = t)
  <2>1. e + 1 \in Episodes
    BY ActuatorAssumption DEF Episodes
  <2>2. \A u \in Types : active[u] = e + 1 => kind[e + 1] = u
    BY <2>1 DEF DomInv, ActuatorInv, EpisodeAccounting
  <2> QED
    <3>1. t \in Types /\ kind[e + 1] = t
      BY <2>2
    <3>2. \A u \in S : u \in Types /\ active[u] \in Nat
      BY ActuatorAssumption DEF DomInv, ActuatorInv, TypeOK
    <3> QED
      BY <2>2, <3>1, <3>2
<1>b. \A u \in S : active[u] <= e + 1 <=> active[u] <= e \/ u = t
  BY <1>a
<1>h. \A n \in Elements : t \in LiveHolders(n) <=> ~r.detached /\ n \in {r.el, r.markEl}
  BY DEF LiveHolders, Holds, None
<1>1. ASSUME NEW n \in Elements \ disturbed
      PROVE  IF \E u \in LiveHolders(n) \cap S : active[u] <= e + 1 THEN IsPlain(c.dom[n], n)
             ELSE SameMarks(c.dom[n], dom[n])
  <2>1. CASE t \in LiveHolders(n)
    <3>1. \A u \in LiveHolders(n) : u = t
      BY <2>1 DEF DomInv, OneHolder
    <3>2. ~ \E u \in LiveHolders(n) \cap S : active[u] <= e
      BY <3>1, <1>a
    <3>3. SameMarks(q.dom[n], dom[n])
      BY <3>2 DEF Restores
    <3>4. /\ IF n = r.el THEN r.class[1] = Rendered(n, mounted).host /\ r.class[2] = {}
             ELSE PlainClass(dom[n], n)
          /\ IF n = r.markEl THEN r.mark = None ELSE Unmarked(dom[n])
      BY <2>1 DEF DomInv, HoldersRestore
    <3>5. IsPlain(c.dom[n], n)
      BY <3>3, <3>4, <1>c, <1>h, <2>1
      DEF IsPlain, PlainClass, Unmarked, SameMarks, SameClass, ClassIs
    <3>6. \E u \in LiveHolders(n) \cap S : active[u] <= e + 1
      BY <2>1, <1>b
    <3> QED
      BY <3>5, <3>6
  <2>2. CASE t \notin LiveHolders(n)
    <3>1. SameMarks(c.dom[n], q.dom[n])
      BY <2>2, <1>c, <1>h, <1>r DEF SameMarks, SameClass
    <3>2. (\E u \in LiveHolders(n) \cap S : active[u] <= e + 1)
            <=> \E u \in LiveHolders(n) \cap S : active[u] <= e
      BY <1>b, <2>2
    <3>3. IF \E u \in LiveHolders(n) \cap S : active[u] <= e THEN IsPlain(q.dom[n], n)
          ELSE SameMarks(q.dom[n], dom[n])
      BY DEF Restores
    <3> QED
      BY <3>1, <3>2, <3>3 DEF IsPlain, PlainClass, Unmarked, SameMarks, SameClass
  <2> QED
    BY <2>1, <2>2
<1>2. ASSUME NEW n \in Elements
      PROVE  c.dom[n].expanded = IF Bares(S, e + 1, n) THEN "absent" ELSE dom[n].expanded
  <2>1. q.dom[n].expanded = IF Bares(S, e, n) THEN "absent" ELSE dom[n].expanded
    BY DEF Restores
  <2>2. CASE t = "expand_tooltip" /\ ~r.detached /\ n = r.el
    <3>1. Bares(S, e + 1, n)
      BY <2>2, <1>a, <1>b DEF Bares, Tipping, None
    <3> QED
      BY <2>2, <3>1, <1>c
  <2>3. CASE ~(t = "expand_tooltip" /\ ~r.detached /\ n = r.el)
    <3>1. c.dom[n].expanded = q.dom[n].expanded
      BY <2>3, <1>c, <1>r
    <3>2. Bares(S, e + 1, n) <=> Bares(S, e, n)
      BY <2>3, <1>b DEF Bares, Tipping
    <3> QED
      BY <2>1, <3>1, <3>2
  <2> QED
    BY <2>2, <2>3
<1>3. ASSUME NEW s \in Sections, dom[s].expanded = Attr(open[s]), FoldedByIt(s) => ~open[s]
      PROVE  c.open[s] = IF s \in Undone(S, e + 1) THEN ~open[s] ELSE open[s]
  <2>1. q.open[s] = IF s \in Undone(S, e) THEN ~open[s] ELSE open[s]
    BY <1>3 DEF Restores
  <2>2. CASE t = "simplify_options" /\ ~r.detached /\ s \in r.folded
    <3>1. FoldedByIt(s)
      BY <2>2 DEF FoldedByIt, Folding, Simplified, None
    <3>2. s \notin Undone(S, e) /\ s \in Undone(S, e + 1)
      BY <2>2, <3>1, <1>a, <1>b DEF Undone
    <3>3. dom[s].expanded = "false" /\ q.dom[s].expanded # "true"
      BY <1>3, <3>1 DEF Elements, OnPage, Attr, Restores
    <3> QED
      BY <2>1, <2>2, <3>2, <3>3, <1>c
  <2>3. CASE ~(t = "simplify_options" /\ ~r.detached /\ s \in r.folded)
    <3>1. c.open[s] = q.open[s]
      BY <2>3, <1>c, <1>r
    <3>2. s \in Undone(S, e + 1) <=> s \in Undone(S, e)
      BY <2>3, <1>b DEF Undone, FoldedByIt, Folding
    <3> QED
      BY <2>1, <3>1, <3>2
  <2> QED
    BY <2>2, <2>3
<1> QED
  BY <1>c, <1>1, <1>2, <1>3 DEF Restores, c

(* After the cleanups of S every undisturbed node they held is as rendered. *)
LEMMA CleanedEffect ==
  ASSUME DomInv, NEW S \in SUBSET Types
  PROVE  Restores(S, MaxEpisodes, Cleaned(S))
<1> DEFINE after == CleanedUpTo(S)
           T == {e \in Nat : e <= MaxEpisodes => Restores(S, e, after[e])}
<1> DEFINE Is(h) == h = [e \in 0..MaxEpisodes |->
                           IF e = 0 THEN Page ELSE CleanupOf(S, e, h[e - 1])]
<1>e. \E h : Is(h)
  <2> DEFINE step == [d \in Pages \X (1..MaxEpisodes) |-> CleanupOf(S, d[2], d[1])]
  <2>1. MaxEpisodes \in Nat /\ Page \in Pages
    BY ActuatorAssumption DEF DomInv, DomTypes
  <2>2. ASSUME NEW p \in Pages, NEW e \in 1..MaxEpisodes PROVE CleanupOf(S, e, p) \in Pages
    <3> DEFINE t == CHOOSE u \in AdaptedIn(S, e) : TRUE
    <3>1. CASE AdaptedIn(S, e) = {}
      BY <3>1 DEF CleanupOf
    <3>2. CASE AdaptedIn(S, e) # {}
      <4>1. t \in Types /\ CleanupOf(S, e, p) = Cleanup(p, t)
        BY <3>2 DEF AdaptedIn, CleanupOf
      <4> HIDE DEF t
      <4> QED
        BY <4>1, CleanupEffect DEF DomInv
    <3> QED
      BY <3>1, <3>2
  <2>3. /\ step \in [Pages \X (1..MaxEpisodes) -> Pages]
        /\ \A p \in Pages, e \in 1..MaxEpisodes : step[<<p, e>>] = CleanupOf(S, e, p)
    BY <2>2
  <2> HIDE DEF step
  <2>4. PICK f : Unfolds(f, MaxEpisodes, Pages, Page, step)
    BY <2>1, <2>3, RecursionExists
  <2>5. f \in [0..MaxEpisodes -> Pages] /\ f[0] = Page
    BY <2>4 DEF Unfolds
  <2>6. ASSUME NEW e \in 0..MaxEpisodes, e # 0 PROVE f[e] = CleanupOf(S, e, f[e - 1])
    <3>1. e \in 1..MaxEpisodes /\ e - 1 \in 0..MaxEpisodes
      BY <2>1, <2>6
    <3> QED
      BY <3>1, <2>3, <2>4, <2>5 DEF Unfolds
  <2>7. Is(f)
    BY <2>5, <2>6
  <2> QED
    BY <2>7
<1>0. after = CHOOSE h : Is(h)
  BY DEF CleanedUpTo
<1>1. \A e \in 0..MaxEpisodes :
        after[e] = IF e = 0 THEN Page ELSE CleanupOf(S, e, after[e - 1])
  <2>1. Is(after)
    <3> HIDE DEF Is, after
    <3> QED
      BY <1>e, <1>0
  <2> HIDE DEF after
  <2> QED
    BY <2>1
<1> HIDE DEF Is
<1> HIDE DEF after
<1>2. after[0] = Page /\ 0 \in T
  BY <1>1, NothingRestored, ActuatorAssumption
<1>3. ASSUME NEW e \in Nat, e \in T PROVE e + 1 \in T
  <2> SUFFICES ASSUME e + 1 <= MaxEpisodes PROVE Restores(S, e + 1, after[e + 1])
    OBVIOUS
  <2>1. Restores(S, e, after[e]) /\ e + 1 \in 0..MaxEpisodes /\ e + 1 # 0 /\ (e + 1) - 1 = e
    BY <1>3, ActuatorAssumption
  <2>2. CASE AdaptedIn(S, e + 1) = {}
    BY <2>1, <2>2, <1>1, EpisodeWithoutCleanup DEF CleanupOf
  <2>3. CASE AdaptedIn(S, e + 1) # {}
    <3> DEFINE t == CHOOSE u \in AdaptedIn(S, e + 1) : TRUE
    <3>1. t \in S /\ active[t] = e + 1
      BY <2>3 DEF AdaptedIn
    <3>2. after[e + 1] = Cleanup(after[e], t)
      BY <2>1, <2>3, <1>1 DEF CleanupOf
    <3> HIDE DEF t
    <3> QED
      BY <2>1, <3>1, <3>2, EpisodeWithCleanup
  <2> QED
    BY <2>2, <2>3
<1>4. T = Nat
  <2> HIDE DEF T
  <2>1. T \in SUBSET Nat
    BY DEF T
  <2> QED
    BY <1>2, <1>3, <2>1, Induction
<1> QED
  BY <1>4, ActuatorAssumption DEF Cleaned, after

(* The page the cleanups of S leave.                                        *)
LEMMA CleanedPage ==
  ASSUME DomInv, NEW S \in SUBSET Types
  PROVE  /\ Cleaned(S) \in Pages
         /\ \A n \in Elements \ disturbed :
              IF LiveHolders(n) \cap S # {} THEN IsPlain(Cleaned(S).dom[n], n)
              ELSE SameMarks(Cleaned(S).dom[n], dom[n])
         /\ \A n \in Elements :
              Cleaned(S).dom[n].expanded =
                IF Tipping(n) /\ "expand_tooltip" \in S THEN "absent" ELSE dom[n].expanded
         /\ \A s \in Sections : dom[s].expanded = Attr(open[s]) /\ (FoldedByIt(s) => ~open[s])
              => Cleaned(S).open[s] = IF FoldedByIt(s) /\ "simplify_options" \in S
                                      THEN ~open[s] ELSE open[s]
<1>1. Restores(S, MaxEpisodes, Cleaned(S))
  BY CleanedEffect
<1>2. \A t \in S : active[t] <= MaxEpisodes
  BY ActuatorAssumption DEF DomInv, ActuatorInv, TypeOK
<1>3. \A n \in Elements :
        LiveHolders(n) \cap S # {} <=> \E t \in LiveHolders(n) \cap S : active[t] <= MaxEpisodes
  BY <1>2
<1>4. \A s \in Sections : s \in Undone(S, MaxEpisodes) <=> FoldedByIt(s) /\ "simplify_options" \in S
  BY <1>2 DEF Undone
<1>5. \A n \in Elements : Bares(S, MaxEpisodes, n) <=> Tipping(n) /\ "expand_tooltip" \in S
  BY <1>2 DEF Bares
<1> QED
  BY <1>1, <1>3, <1>4, <1>5 DEF Restores

(* What a step leaves of a page: React sets aria-expanded alone.            *)
LEMMA SetPageEffect ==
  ASSUME NEW p \in Pages, SetPage(p)
  PROVE  /\ Page' \in Pages /\ open' = p.open
         /\ \A n \in Elements : SameMarks(dom'[n], p.dom[n])
<1>p. p.dom \in [Elements -> Attributes] /\ p.open \in [Sections -> BOOLEAN]
  BY DEF Pages
<1> DEFINE node(n) == IF n \in Sections /\ p.open[n] # open[n]
                      THEN [p.dom[n] EXCEPT !.expanded = Attr(p.open[n])] ELSE p.dom[n]
<1>1. open' = p.open /\ dom' = [n \in Elements |-> node(n)]
  BY DEF SetPage
<1>2. ASSUME NEW n \in Elements PROVE node(n) \in Attributes /\ SameMarks(node(n), p.dom[n])
  <2>1. p.dom[n] \in Attributes
    BY <1>p
  <2>2. CASE n \in Sections /\ p.open[n] # open[n]
    <3>1. Attr(p.open[n]) \in {"absent", "true", "false"}
      BY DEF Attr
    <3>2. node(n) = [p.dom[n] EXCEPT !.expanded = Attr(p.open[n])]
      BY <2>2
    <3> QED
      BY <2>1, <3>1, <3>2 DEF Attributes, SameMarks, SameClass
  <2>3. CASE ~(n \in Sections /\ p.open[n] # open[n])
    BY <2>1, <2>3 DEF SameMarks, SameClass
  <2> QED
    BY <2>2, <2>3
<1> HIDE DEF node
<1> QED
  BY <1>p, <1>1, <1>2 DEF Page, Pages

(***************************************************************************)
(* The steps.                                                               *)
(***************************************************************************)
(* Only a live adaptation still attached holds a node.                      *)
LEMMA Holders ==
  \A n : \A t : t \in LiveHolders(n) <=>
    t \in Types /\ active[t] # None /\ ~saved[t].detached /\ n \in {saved[t].el, saved[t].markEl}
  BY DEF LiveHolders, Holds

(* A step that ends the adaptations of S and runs their cleanups.           *)
LEMMA ClearingKeepsInv ==
  ASSUME DomInv, ActuatorInv', NEW S \in SUBSET Types, active' = ActiveAfter(S),
         SetPage(Cleaned(S)), UNCHANGED <<mounted, saved, disturbed, described>>
  PROVE  DomInv'
<1>inv. /\ DomTypes /\ MountedTogether /\ DrawerHeld /\ BannerApart
        /\ OneHolder /\ HoldersRestore /\ NodesPlain
  BY DEF DomInv
<1>same. mounted' = mounted /\ saved' = saved /\ disturbed' = disturbed /\ described' = described
  OBVIOUS
<1> DEFINE q == Cleaned(S)
<1>q. /\ q \in Pages
      /\ \A n \in Elements \ disturbed :
           IF LiveHolders(n) \cap S # {} THEN IsPlain(q.dom[n], n) ELSE SameMarks(q.dom[n], dom[n])
  BY CleanedPage
<1> HIDE DEF q
<1>d. Page' \in Pages /\ \A n \in Elements : SameMarks(dom'[n], q.dom[n])
  BY <1>q, SetPageEffect DEF q
<1>h. \A n : \A t : t \in LiveHolders(n)' <=> t \in LiveHolders(n) /\ t \notin S
  <2>1. \A t \in Types : active'[t] # None <=> active[t] # None /\ t \notin S
    BY DEF ActiveAfter
  <2> QED
    BY <2>1, <1>same DEF LiveHolders, Holds
<1>1. DomTypes'
  BY <1>inv, <1>same, <1>d DEF DomTypes
<1>2. MountedTogether' /\ DrawerHeld' /\ BannerApart'
  BY <1>inv, <1>same DEF MountedTogether, DrawerHeld, BannerApart
<1>3. OneHolder'
  BY <1>inv, <1>same, <1>h DEF OneHolder
<1>4. HoldersRestore'
  <2> SUFFICES ASSUME NEW n \in Elements \ disturbed, NEW t \in LiveHolders(n)'
               PROVE  /\ IF n = saved[t].el
                         THEN saved[t].class[1] = Rendered(n, mounted).host /\ saved[t].class[2] = {}
                         ELSE PlainClass(dom'[n], n)
                      /\ IF n = saved[t].markEl THEN saved[t].mark = None ELSE Unmarked(dom'[n])
    BY <1>same DEF HoldersRestore, PlainClass
  <2>1. t \in LiveHolders(n) /\ t \notin S
    BY <1>h
  <2>2. LiveHolders(n) \cap S = {}
    BY <2>1, <1>inv DEF OneHolder
  <2>3. SameMarks(dom'[n], dom[n])
    BY <2>2, <1>q, <1>d DEF SameMarks, SameClass
  <2>4. /\ IF n = saved[t].el
           THEN saved[t].class[1] = Rendered(n, mounted).host /\ saved[t].class[2] = {}
           ELSE PlainClass(dom[n], n)
        /\ IF n = saved[t].markEl THEN saved[t].mark = None ELSE Unmarked(dom[n])
    BY <2>1, <1>inv DEF HoldersRestore
  <2> QED
    BY <2>3, <2>4 DEF SameMarks, SameClass, PlainClass, Unmarked
<1>5. NodesPlain'
  <2> SUFFICES ASSUME NEW n \in Elements \ disturbed, LiveHolders(n)' = {}
               PROVE  IsPlain(dom'[n], n)
    BY <1>same DEF NodesPlain, IsPlain, PlainClass, Unmarked
  <2>1. LiveHolders(n) = {} \/ LiveHolders(n) \cap S # {}
    BY <1>h
  <2>2. LiveHolders(n) = {} => IsPlain(dom[n], n)
    BY <1>inv DEF NodesPlain, IsPlain, PlainClass, Unmarked
  <2>3. IsPlain(q.dom[n], n)
    BY <2>1, <2>2, <1>q DEF IsPlain, PlainClass, Unmarked, SameMarks, SameClass
  <2> QED
    BY <2>3, <1>d DEF IsPlain, PlainClass, Unmarked, SameMarks, SameClass
<1> QED
  BY <1>1, <1>2, <1>3, <1>4, <1>5 DEF DomInv

(* A step that puts an adaptation of its type on the page: its cleanup ran, *)
(* what it will put back is read, and it rewrites the nodes it then holds.  *)
LEMMA InstallKeepsInv ==
  ASSUME DomInv, ActuatorInv', NEW t \in Types, t # "offer_assistance",
         NEW el \in Elements, NEW markEl \in Elements, el \in OnPage <=> markEl \in OnPage,
         t = "simplify_options" => el \in OnPage,
         NEW folded \in SUBSET Sections, NEW shown \in Pages,
         \A n \in Elements : shown.dom[n].mark = Cleaned({t}).dom[n].mark,
         \A n \in Elements \ {el} : SameClass(shown.dom[n], Cleaned({t}).dom[n]),
         begun + 1 \in Episodes, active' = [active EXCEPT ![t] = begun + 1],
         Install(t, shown, Record(Cleaned({t}), el, markEl, folded))
  PROVE  DomInv'
<1>inv. /\ DomTypes /\ MountedTogether /\ DrawerHeld /\ BannerApart
        /\ OneHolder /\ HoldersRestore /\ NodesPlain
  BY DEF DomInv
<1> DEFINE q == Cleaned({t})
           record == Record(q, el, markEl, folded)
           marked == SetMark(shown, markEl, begun + 1)
<1>r. /\ record.el = el /\ record.class = <<q.dom[el].host, q.dom[el].tokens>>
      /\ record.markEl = markEl /\ record.mark = q.dom[markEl].mark
      /\ record.folded = folded /\ record.detached = FALSE
  BY DEF Record
<1>k. record = [el |-> el, class |-> <<q.dom[el].host, q.dom[el].tokens>>, markEl |-> markEl,
                mark |-> q.dom[markEl].mark, folded |-> folded, detached |-> FALSE]
  BY DEF Record
<1>i. /\ SetPage(marked) /\ saved' = [saved EXCEPT ![t] = record]
      /\ disturbed' = disturbed \cup SharedWith(t, {el, markEl}) /\ mounted' = mounted
      /\ described' \subseteq described \cup {el}
  BY <1>r DEF Install
<1> HIDE DEF record
<1>q. /\ q \in Pages
      /\ \A n \in Elements \ disturbed :
           IF LiveHolders(n) \cap {t} # {} THEN IsPlain(q.dom[n], n)
           ELSE SameMarks(q.dom[n], dom[n])
  BY CleanedPage
<1>w. /\ \A n \in Elements : shown.dom[n].mark = q.dom[n].mark
      /\ \A n \in Elements \ {el} : SameClass(shown.dom[n], q.dom[n])
  OBVIOUS
<1> HIDE DEF q
<1>m. /\ marked \in Pages
      /\ \A n \in Elements :
           /\ SameClass(marked.dom[n], shown.dom[n])
           /\ marked.dom[n].mark = IF n = markEl THEN begun + 1 ELSE shown.dom[n].mark
  BY SetMarkEffect DEF Episodes
<1> HIDE DEF marked
<1>d. /\ Page' \in Pages
      /\ \A n \in Elements \ {el} : SameClass(dom'[n], q.dom[n])
      /\ \A n \in Elements \ {markEl} : dom'[n].mark = q.dom[n].mark
  <2>1. Page' \in Pages /\ \A n \in Elements : SameMarks(dom'[n], marked.dom[n])
    BY <1>i, <1>m, SetPageEffect
  <2> QED
    BY <2>1, <1>m, <1>w DEF SameMarks, SameClass
<1>h. \A n \in Elements \ disturbed' :
        /\ LiveHolders(n)' = IF n \in {el, markEl} THEN {t} ELSE LiveHolders(n) \ {t}
        /\ n \in {el, markEl} => LiveHolders(n) \subseteq {t}
  <2>1. /\ active'[t] # None /\ \A u \in Types \ {t} : active'[u] = active[u]
        /\ saved'[t] = record /\ \A u \in Types \ {t} : saved'[u] = saved[u]
    BY <1>inv, <1>i DEF DomTypes, DomInv, ActuatorInv, TypeOK, None, Episodes
  <2>2. \A n : t \in LiveHolders(n)' <=> n \in {el, markEl}
    BY <2>1, <1>r DEF LiveHolders, Holds
  <2>3. \A n : \A u : u # t => (u \in LiveHolders(n)' <=> u \in LiveHolders(n))
    BY <2>1 DEF LiveHolders, Holds
  <2>4. \A n \in Elements \ disturbed' : n \in {el, markEl} => LiveHolders(n) \subseteq {t}
    BY <1>i DEF SharedWith
  <2> QED
    BY <2>2, <2>3, <2>4
<1>p. \A n \in Elements \ disturbed' :
        LiveHolders(n) \subseteq {t} => IsPlain(q.dom[n], n)
  <2> SUFFICES ASSUME NEW n \in Elements \ disturbed, LiveHolders(n) \subseteq {t}
               PROVE  IsPlain(q.dom[n], n)
    BY <1>i
  <2>1. CASE LiveHolders(n) = {}
    BY <2>1, <1>inv, <1>q
    DEF NodesPlain, IsPlain, PlainClass, Unmarked, SameMarks, SameClass
  <2>2. CASE LiveHolders(n) # {}
    BY <2>2, <1>q
  <2> QED
    BY <2>1, <2>2
<1>1. DomTypes'
  <2>1. q.dom[el] \in Attributes /\ q.dom[markEl] \in Attributes
    BY <1>q DEF Pages
  <2>2. record \in Records
    BY <2>1, <1>k DEF Records, Attributes
  <2>3. disturbed' \subseteq Elements /\ described' \subseteq Elements
    BY <1>inv, <1>i DEF DomTypes, SharedWith
  <2> QED
    BY <2>2, <2>3, <1>inv, <1>i, <1>d DEF DomTypes
<1>2. MountedTogether' /\ DrawerHeld' /\ BannerApart'
  BY <1>inv, <1>i, <1>r DEF MountedTogether, DrawerHeld, BannerApart, DomTypes
<1>3. OneHolder'
  BY <1>inv, <1>h, <1>i DEF OneHolder
<1>4. HoldersRestore'
  <2> SUFFICES ASSUME NEW n \in Elements \ disturbed', NEW u \in LiveHolders(n)'
               PROVE  /\ IF n = saved'[u].el
                         THEN /\ saved'[u].class[1] = Rendered(n, mounted).host
                              /\ saved'[u].class[2] = {}
                         ELSE PlainClass(dom'[n], n)
                      /\ IF n = saved'[u].markEl THEN saved'[u].mark = None
                         ELSE Unmarked(dom'[n])
    BY <1>i DEF HoldersRestore, PlainClass
  <2>1. CASE n \in {el, markEl}
    <3>0. saved'[t] = record
      BY <1>i, <1>inv DEF DomTypes
    <3>1. u = t /\ saved'[u] = record
      BY <2>1, <3>0, <1>h
    <3>2. IsPlain(q.dom[n], n)
      BY <2>1, <1>h, <1>p
    <3> QED
      BY <2>1, <3>1, <3>2, <1>r, <1>d DEF IsPlain, PlainClass, Unmarked, SameClass
  <2>2. CASE n \notin {el, markEl}
    <3>1. u \in LiveHolders(n) /\ u # t /\ n \notin disturbed
      BY <2>2, <1>h, <1>i
    <3>2. saved'[u] = saved[u] /\ LiveHolders(n) \cap {t} = {}
      BY <3>1, <1>i, <1>inv DEF OneHolder, DomTypes
    <3>3. SameMarks(dom'[n], dom[n])
      BY <2>2, <3>1, <3>2, <1>q, <1>d DEF SameMarks, SameClass
    <3>4. /\ IF n = saved[u].el
             THEN saved[u].class[1] = Rendered(n, mounted).host /\ saved[u].class[2] = {}
             ELSE PlainClass(dom[n], n)
          /\ IF n = saved[u].markEl THEN saved[u].mark = None ELSE Unmarked(dom[n])
      BY <3>1, <1>inv DEF HoldersRestore
    <3> QED
      BY <3>2, <3>3, <3>4 DEF SameMarks, SameClass, PlainClass, Unmarked
  <2> QED
    BY <2>1, <2>2
<1>5. NodesPlain'
  <2> SUFFICES ASSUME NEW n \in Elements \ disturbed', LiveHolders(n)' = {}
               PROVE  IsPlain(dom'[n], n)
    BY <1>i DEF NodesPlain, IsPlain, PlainClass, Unmarked
  <2>1. n \notin {el, markEl} /\ LiveHolders(n) \subseteq {t}
    BY <1>h
  <2>2. IsPlain(q.dom[n], n)
    BY <2>1, <1>p
  <2> QED
    BY <2>1, <2>2, <1>d DEF IsPlain, PlainClass, Unmarked, SameClass
<1> QED
  BY <1>1, <1>2, <1>3, <1>4, <1>5 DEF DomInv

(* An adaptation's token is added to the class of one node.                 *)
LEMMA TokenedEffect ==
  ASSUME NEW p \in Pages, NEW el \in Elements, NEW t \in Types
  PROVE  /\ Tokened(p, el, t) \in Pages /\ Tokened(p, el, t).open = p.open
         /\ \A n \in Elements : /\ Tokened(p, el, t).dom[n].mark = p.dom[n].mark
                                /\ Tokened(p, el, t).dom[n].expanded = p.dom[n].expanded
         /\ \A n \in Elements \ {el} : SameClass(Tokened(p, el, t).dom[n], p.dom[n])
<1> DEFINE a == [p.dom[el] EXCEPT !.tokens = p.dom[el].tokens \cup {t}]
<1>p. /\ p.dom \in [Elements -> Attributes] /\ p.open \in [Sections -> BOOLEAN]
      /\ p = [dom |-> p.dom, open |-> p.open]
  BY DEF Pages
<1>1. Tokened(p, el, t) = [dom |-> [p.dom EXCEPT ![el] = a], open |-> p.open]
  BY <1>p DEF Tokened, Pages
<1>2. p.dom[el] \in Attributes
  BY <1>p
<1>3. a \in Attributes /\ a.mark = p.dom[el].mark /\ a.expanded = p.dom[el].expanded
  BY <1>2 DEF Attributes
<1> HIDE DEF a
<1> QED
  BY <1>p, <1>1, <1>3 DEF Pages, SameClass

(* The highlight and the tooltip.                                           *)
LEMMA AdaptElementKeepsInv ==
  ASSUME DomInv, ActuatorInv', NEW t \in Types, NEW el \in Elements, AdaptElement(t, el)
  PROVE  DomInv'
<1> DEFINE q == Cleaned({t})
           tokened == Tokened(q, el, t)
           told == [tokened EXCEPT !.dom[el].expanded = "true"]
           shown == IF t = "expand_tooltip" THEN told ELSE tokened
<1>1. /\ t # "offer_assistance" /\ t # "simplify_options" /\ Apply(t, TRUE)
      /\ Install(t, shown, Record(q, el, el, {}))
  BY DEF AdaptElement
<1>2. q \in Pages
  BY CleanedPage
<1> HIDE DEF q
<1>3. /\ tokened \in Pages
      /\ \A n \in Elements : tokened.dom[n].mark = q.dom[n].mark
      /\ \A n \in Elements \ {el} : SameClass(tokened.dom[n], q.dom[n])
  BY <1>2, TokenedEffect
<1> HIDE DEF tokened
<1>4. told \in Pages /\ \A n \in Elements : SameMarks(told.dom[n], tokened.dom[n])
  <2> DEFINE a == [tokened.dom[el] EXCEPT !.expanded = "true"]
  <2>1. /\ tokened.dom \in [Elements -> Attributes] /\ tokened.open \in [Sections -> BOOLEAN]
        /\ tokened = [dom |-> tokened.dom, open |-> tokened.open]
    BY <1>3 DEF Pages
  <2>2. told = [dom |-> [tokened.dom EXCEPT ![el] = a], open |-> tokened.open]
    BY <2>1
  <2>3. tokened.dom[el] \in Attributes
    BY <2>1
  <2>4. a \in Attributes /\ SameMarks(a, tokened.dom[el])
    BY <2>3 DEF Attributes, SameMarks, SameClass
  <2> HIDE DEF a, told
  <2> QED
    BY <2>1, <2>2, <2>4 DEF Pages, SameMarks, SameClass
<1> HIDE DEF told
<1>5. /\ shown \in Pages
      /\ \A n \in Elements : shown.dom[n].mark = q.dom[n].mark
      /\ \A n \in Elements \ {el} : SameClass(shown.dom[n], q.dom[n])
  BY <1>3, <1>4 DEF SameMarks, SameClass
<1> HIDE DEF shown
<1>6. begun + 1 \in Episodes /\ active' = [active EXCEPT ![t] = begun + 1]
  BY <1>1, ActuatorAssumption DEF Apply, DomInv, ActuatorInv, TypeOK, Episodes
<1> QED
  BY <1>1, <1>5, <1>6, InstallKeepsInv DEF q

(* The simplification.                                                      *)
LEMMA SimplifyKeepsInv ==
  ASSUME DomInv, ActuatorInv', NEW focused, Simplify(focused)
  PROVE  DomInv'
<1> DEFINE t == "simplify_options"
           q == Cleaned({t})
           tokened == Tokened(q, Drawer, t)
           folded == {s \in Sections \ focused : q.dom[s].expanded = "true"}
           shown == ClickAll(tokened, folded)
<1>1. /\ t \in Types /\ Apply(t, TRUE)
      /\ Install(t, shown, Record(q, Drawer, FirstSection, folded))
  BY DEF Simplify
<1>2. q \in Pages
  BY <1>1, CleanedPage
<1>f. folded \in SUBSET Sections
  OBVIOUS
<1> HIDE DEF q, folded
<1>o. Drawer \in OnPage /\ FirstSection \in OnPage /\ Drawer \in Elements /\ FirstSection \in Elements
  BY PageAssumption DEF OnPage, Elements
<1>3. /\ tokened \in Pages
      /\ \A n \in Elements : tokened.dom[n].mark = q.dom[n].mark
      /\ \A n \in Elements \ {Drawer} : SameClass(tokened.dom[n], q.dom[n])
  BY <1>1, <1>2, <1>o, TokenedEffect
<1> HIDE DEF tokened
<1>5. /\ shown \in Pages
      /\ \A n \in Elements : shown.dom[n].mark = q.dom[n].mark
      /\ \A n \in Elements \ {Drawer} : SameClass(shown.dom[n], q.dom[n])
  BY <1>3, ClickAllEffect
<1> HIDE DEF shown
<1>6. begun + 1 \in Episodes /\ active' = [active EXCEPT ![t] = begun + 1]
  BY <1>1, ActuatorAssumption DEF Apply, DomInv, ActuatorInv, TypeOK, Episodes
<1> QED
  BY <1>1, <1>5, <1>6, <1>o, <1>f, InstallKeepsInv DEF q

(* The user opens or closes a section.                                      *)
LEMMA ToggleKeepsInv ==
  ASSUME DomInv, ActuatorInv', NEW s \in Sections, Toggle(s)
  PROVE  DomInv'
<1>inv. /\ DomTypes /\ MountedTogether /\ DrawerHeld /\ BannerApart
        /\ OneHolder /\ HoldersRestore /\ NodesPlain
  BY DEF DomInv
<1>same. mounted' = mounted /\ saved' = saved /\ active' = active /\ described' = described
  BY DEF Toggle, actuatorVars
<1>new. SetPage(Click(Page, s)) /\ disturbed' \subseteq disturbed \cup {s} /\ disturbed \subseteq disturbed'
  BY DEF Toggle
<1>1. Click(Page, s) \in Pages /\ Click(Page, s).dom = dom
  <2>1. Page \in Pages /\ Page.dom = dom /\ Page.open = open
    BY <1>inv DEF DomTypes, Page
  <2>2. dom \in [Elements -> Attributes] /\ open \in [Sections -> BOOLEAN]
    BY <2>1 DEF Pages
  <2>3. Click(Page, s) = [dom |-> dom, open |-> [open EXCEPT ![s] = ~open[s]]]
    BY <2>1 DEF Click, Page
  <2> QED
    BY <2>2, <2>3 DEF Pages
<1>2. Page' \in Pages /\ \A n \in Elements : SameMarks(dom'[n], dom[n])
  BY <1>1, <1>new, SetPageEffect
<1>h. \A n : LiveHolders(n)' = LiveHolders(n)
  BY <1>same DEF LiveHolders, Holds
<1>3. DomTypes'
  BY <1>inv, <1>same, <1>new, <1>2 DEF DomTypes, Elements, OnPage
<1>4. MountedTogether' /\ DrawerHeld' /\ BannerApart'
  BY <1>inv, <1>same DEF MountedTogether, DrawerHeld, BannerApart
<1>5. OneHolder'
  BY <1>inv, <1>new, <1>h DEF OneHolder
<1>6. HoldersRestore'
  BY <1>inv, <1>new, <1>same, <1>h, <1>2
  DEF HoldersRestore, PlainClass, Unmarked, SameMarks, SameClass
<1>7. NodesPlain'
  BY <1>inv, <1>new, <1>same, <1>h, <1>2
  DEF NodesPlain, PlainClass, Unmarked, SameMarks, SameClass
<1> QED
  BY <1>3, <1>4, <1>5, <1>6, <1>7 DEF DomInv

(* The user navigates: the Analytics page is mounted anew or unmounted.     *)
LEMMA NavigateKeepsInv ==
  ASSUME DomInv, ActuatorInv', Navigate
  PROVE  DomInv'
<1>inv. /\ DomTypes /\ MountedTogether /\ DrawerHeld /\ BannerApart
        /\ OneHolder /\ HoldersRestore /\ NodesPlain
  BY DEF DomInv
<1>same. active' = active
  BY DEF Navigate, actuatorVars
<1> DEFINE node(n) == IF n = Nav THEN [dom[Nav] EXCEPT !.host = NavClass(~mounted), !.tokens = {}]
                      ELSE Rendered(n, ~mounted)
           record(t) == IF saved[t].el \in OnPage THEN [saved[t] EXCEPT !.detached = TRUE]
                        ELSE saved[t]
<1>new. /\ mounted' = ~mounted /\ dom' = [n \in Elements |-> node(n)]
        /\ open' = [s \in Sections |-> FALSE] /\ saved' = [t \in Types |-> record(t)]
        /\ disturbed' = (disturbed \cap {Nav}) \cup (IF LiveHolders(Nav) # {} THEN {Nav} ELSE {})
        /\ described' = described \cap {Nav}
  BY DEF Navigate
<1>o. /\ \A n \in Elements : n \in OnPage <=> n # Nav
      /\ Nav \in Elements
  BY PageAssumption DEF Elements
<1>t. mounted \in BOOLEAN /\ dom \in [Elements -> Attributes] /\ saved \in [Types -> Records]
  BY <1>inv DEF DomTypes, Page, Pages
<1>1. ASSUME NEW n \in Elements
      PROVE  /\ node(n) \in Attributes
             /\ node(n).host = Rendered(n, ~mounted).host /\ node(n).tokens = {}
             /\ node(n).mark = IF n = Nav THEN dom[Nav].mark ELSE None
  <2>1. CASE n = Nav
    <3>1. dom[Nav] \in Attributes /\ NavClass(~mounted) \in {"plain", "active"}
      BY <1>t, <1>o DEF NavClass
    <3>2. node(n) = [dom[Nav] EXCEPT !.host = NavClass(~mounted), !.tokens = {}]
      BY <2>1
    <3>3. /\ node(n) \in Attributes /\ node(n).mark = dom[Nav].mark
          /\ node(n).host = NavClass(~mounted) /\ node(n).tokens = {}
      BY <3>1, <3>2 DEF Attributes
    <3>4. Rendered(n, ~mounted).host = NavClass(~mounted)
      BY <2>1 DEF Rendered
    <3> HIDE DEF node
    <3> QED
      BY <2>1, <3>3, <3>4
  <2>2. CASE n # Nav
    <3>1. node(n) = Rendered(n, ~mounted)
      BY <2>2
    <3>2. None \in 0..MaxEpisodes
      BY ActuatorAssumption DEF None
    <3>3. node(n) \in Attributes
      BY <2>2, <3>1, <3>2 DEF Rendered, Attributes
    <3> QED
      BY <2>2, <3>1, <3>3 DEF Rendered
  <2> QED
    BY <2>1, <2>2
<1>2. ASSUME NEW t \in Types
      PROVE  /\ record(t) \in Records /\ record(t).el = saved[t].el
             /\ record(t).markEl = saved[t].markEl
             /\ saved[t].detached \/ saved[t].el \in OnPage => record(t).detached
             /\ saved[t].el \notin OnPage => record(t) = saved[t]
  <2>1. saved[t] \in Records
    BY <1>t
  <2>2. CASE saved[t].el \in OnPage
    <3>1. record(t) = [saved[t] EXCEPT !.detached = TRUE]
      BY <2>2
    <3> QED
      BY <2>1, <2>2, <3>1 DEF Records
  <2>3. CASE saved[t].el \notin OnPage
    BY <2>1, <2>3
  <2> QED
    BY <2>2, <2>3
<1> HIDE DEF node, record
<1>h. \A n \in Elements :
        /\ n # Nav => LiveHolders(n)' = {}
        /\ LiveHolders(Nav)' \subseteq LiveHolders(Nav)
  <2>1. ASSUME NEW n \in Elements, NEW t \in LiveHolders(n)'
        PROVE  n = Nav /\ t \in LiveHolders(Nav)
    <3>1. t \in Types /\ active[t] # None /\ ~saved'[t].detached
          /\ n \in {saved'[t].el, saved'[t].markEl}
      BY <1>same DEF LiveHolders, Holds
    <3>2. saved[t].el \notin OnPage /\ saved'[t] = saved[t]
      BY <3>1, <1>new, <1>2
    <3>3. saved[t].markEl \notin OnPage /\ saved[t].el \in Elements /\ saved[t].markEl \in Elements
      BY <3>1, <3>2, <1>inv, <1>t DEF MountedTogether, Records
    <3>4. n = Nav
      BY <3>1, <3>2, <3>3, <1>o
    <3> QED
      BY <3>1, <3>2, <3>4 DEF LiveHolders, Holds
  <2> QED
    BY <2>1, <1>o
<1>3. DomTypes'
  <2>1. Page' \in Pages
    BY <1>new, <1>1 DEF Page, Pages
  <2>2. /\ saved' \in [Types -> Records] /\ mounted' \in BOOLEAN
        /\ disturbed' \subseteq Elements /\ described' \subseteq Elements
    BY <1>new, <1>2, <1>t, <1>o
  <2> QED
    BY <2>1, <2>2 DEF DomTypes
<1>4. MountedTogether' /\ DrawerHeld' /\ BannerApart'
  <2>1. \A t \in Types : /\ saved'[t].el = saved[t].el /\ saved'[t].markEl = saved[t].markEl
                         /\ saved[t].detached => saved'[t].detached
    BY <1>new, <1>2
  <2> QED
    BY <2>1, <1>inv DEF MountedTogether, DrawerHeld, BannerApart
<1>5. \A n \in Elements \ disturbed' : LiveHolders(n)' = {} /\ (n = Nav => LiveHolders(n) = {} /\ n \notin disturbed)
  BY <1>h, <1>new
<1>6. OneHolder' /\ HoldersRestore'
  BY <1>5 DEF OneHolder, HoldersRestore
<1>7. NodesPlain'
  <2> SUFFICES ASSUME NEW n \in Elements \ disturbed'
               PROVE  /\ dom'[n].host = Rendered(n, mounted').host
                      /\ dom'[n].tokens = {} /\ dom'[n].mark = None
    BY DEF NodesPlain, PlainClass, Unmarked, Rendered, NavClass
  <2>1. dom'[n] = node(n)
    BY <1>new
  <2>2. n = Nav => dom[Nav].mark = None
    BY <1>5, <1>inv DEF NodesPlain, Unmarked
  <2> QED
    BY <2>1, <2>2, <1>1, <1>new
<1> QED
  BY <1>3, <1>4, <1>6, <1>7 DEF DomInv

(* A step that changes no adaptation of a host node and not the page.       *)
LEMMA BannerKeepsInv ==
  ASSUME DomInv, ActuatorInv', UNCHANGED domVars,
         \A t \in Types \ {"offer_assistance"} : active'[t] = active[t]
  PROVE  DomInv'
<1>inv. /\ DomTypes /\ MountedTogether /\ DrawerHeld /\ BannerApart
        /\ OneHolder /\ HoldersRestore /\ NodesPlain
  BY DEF DomInv
<1>same. /\ mounted' = mounted /\ dom' = dom /\ open' = open /\ saved' = saved
         /\ disturbed' = disturbed /\ described' = described
  BY DEF domVars
<1>h. \A n : LiveHolders(n)' = LiveHolders(n)
  BY <1>inv, <1>same DEF LiveHolders, Holds, BannerApart
<1>1. DomTypes' /\ MountedTogether' /\ DrawerHeld' /\ BannerApart'
  BY <1>inv, <1>same DEF DomTypes, Page, MountedTogether, DrawerHeld, BannerApart
<1>2. OneHolder'
  BY <1>inv, <1>same, <1>h DEF OneHolder
<1>3. HoldersRestore'
  BY <1>inv, <1>same, <1>h DEF HoldersRestore, PlainClass, Unmarked
<1>4. NodesPlain'
  BY <1>inv, <1>same, <1>h DEF NodesPlain, PlainClass, Unmarked
<1> QED
  BY <1>1, <1>2, <1>3, <1>4 DEF DomInv

(***************************************************************************)
(* Every behaviour of the page.                                             *)
(***************************************************************************)
(* Every step on the page is one of the actuator or leaves it alone.        *)
LEMMA PageStepsAreActuatorSteps == [DomNext]_vars => [Next]_actuatorVars
  BY DEF DomNext, Adaptation, AdaptElement, Simplify, AdaptNothing, OfferAssistance,
         ExpireAndClean, EscapeAndClean, ClickAndClean, ResetAndClean, Toggle, Navigate,
         vars, Next

(* The initial page.                                                        *)
LEMMA InitDomInv == DomInit => DomInv
<1> SUFFICES ASSUME DomInit PROVE DomInv
  OBVIOUS
<1>1. /\ Init /\ mounted = TRUE /\ open = [s \in Sections |-> FALSE]
      /\ disturbed = {} /\ described = {}
      /\ dom = [n \in Elements |-> Rendered(n, TRUE)] /\ saved = [t \in Types |-> NoRecord]
  BY DEF DomInit
<1>2. None \in 0..MaxEpisodes
  BY ActuatorAssumption DEF None
<1>3. \A n \in Elements : Rendered(n, TRUE) \in Attributes
  BY <1>2 DEF Rendered, Attributes, NavClass
<1>4. NoRecord \in Records /\ NoRecord.detached /\ NoRecord.el = Nav /\ NoRecord.markEl = Nav
  BY <1>2 DEF NoRecord, Records, Elements
<1>5. DomTypes
  BY <1>1, <1>3, <1>4 DEF DomTypes, Page, Pages
<1>6. MountedTogether /\ DrawerHeld /\ BannerApart
  BY <1>1, <1>4 DEF MountedTogether, DrawerHeld, BannerApart
<1>7. \A n : LiveHolders(n) = {}
  BY <1>1, <1>4 DEF LiveHolders
<1>8. NodesPlain
  BY <1>1 DEF NodesPlain, PlainClass, Unmarked, Rendered
<1> QED
  BY <1>1, <1>5, <1>6, <1>7, <1>8, InitActuatorInv DEF DomInv, OneHolder, HoldersRestore

(* A dismissal clears the types of the handlers that ran.                   *)
LEMMA DismissClears ==
  ASSUME NEW fired, Dismiss(fired)
  PROVE  active' = ActiveAfter({h[1] : h \in fired})
  BY DEF Dismiss, Clear

(* Every step preserves the invariant.                                      *)
LEMMA NextDomInv == DomInv /\ [DomNext]_vars => DomInv'
<1> SUFFICES ASSUME DomInv, [DomNext]_vars PROVE DomInv'
  OBVIOUS
<1>a. ActuatorInv /\ ActuatorInv'
  BY PageStepsAreActuatorSteps, NextActuatorInv DEF DomInv
<1>1. ASSUME NEW t \in Types, NEW el \in Elements, AdaptElement(t, el) PROVE DomInv'
  BY <1>a, <1>1, AdaptElementKeepsInv
<1>2. ASSUME NEW focused, Simplify(focused) PROVE DomInv'
  BY <1>a, <1>2, SimplifyKeepsInv
<1>3. ASSUME NEW t \in Types, AdaptNothing(t) PROVE DomInv'
  <2>1. /\ active' = ActiveAfter({t}) /\ SetPage(Cleaned({t}))
        /\ UNCHANGED <<mounted, saved, disturbed, described>>
    BY <1>3 DEF AdaptNothing, Apply
  <2> QED
    BY <2>1, <1>a, ClearingKeepsInv
<1>4. CASE OfferAssistance
  <2>1. UNCHANGED domVars /\ \A t \in Types \ {"offer_assistance"} : active'[t] = active[t]
    BY <1>4, <1>a DEF OfferAssistance, Apply, ActuatorInv, TypeOK
  <2> QED
    BY <2>1, <1>a, BannerKeepsInv
<1>5. ASSUME NEW t \in Types, NEW e \in Episodes, ExpireAndClean(t, e) PROVE DomInv'
  <2>1. /\ active' = ActiveAfter({t}) /\ SetPage(Cleaned({t}))
        /\ UNCHANGED <<mounted, saved, disturbed, described>>
    BY <1>5 DEF ExpireAndClean, Expire, End
  <2> QED
    BY <2>1, <1>a, ClearingKeepsInv
<1>6. CASE EscapeAndClean
  <2> DEFINE S == {h[1] : h \in handlers}
  <2>1. S \in SUBSET Types
    BY <1>a DEF ActuatorInv, TypeOK
  <2>2. /\ active' = ActiveAfter(S) /\ SetPage(Cleaned(S))
        /\ UNCHANGED <<mounted, saved, disturbed, described>>
    BY <1>6, DismissClears DEF EscapeAndClean, PressEscape, End
  <2> HIDE DEF S
  <2> QED
    BY <2>1, <2>2, <1>a, ClearingKeepsInv
<1>7. CASE ClickAndClean
  <2>1. PICK h \in handlers : h[1] \in WithButton /\ Dismiss({h})
    BY <1>7 DEF ClickAndClean, ClickDismiss
  <2>2. active' = ActiveAfter({h[1]}) /\ h[1] = "offer_assistance"
    BY <2>1, DismissClears DEF WithButton
  <2>3. UNCHANGED domVars /\ \A t \in Types \ {"offer_assistance"} : active'[t] = active[t]
    BY <1>7, <2>2 DEF ClickAndClean, ActiveAfter
  <2> QED
    BY <2>3, <1>a, BannerKeepsInv
<1>8. CASE ResetAndClean
  <2>1. /\ active' = ActiveAfter(Types) /\ SetPage(Cleaned(Types))
        /\ UNCHANGED <<mounted, saved, disturbed, described>>
    BY <1>8 DEF ResetAndClean, Reset, Clear, End
  <2> QED
    BY <2>1, <1>a, ClearingKeepsInv
<1>9. ASSUME NEW s \in Sections, Toggle(s) PROVE DomInv'
  BY <1>a, <1>9, ToggleKeepsInv
<1>10. CASE Navigate
  BY <1>a, <1>10, NavigateKeepsInv
<1>11. CASE UNCHANGED vars
  BY <1>a, <1>11, BannerKeepsInv DEF vars, actuatorVars
<1> QED
  BY <1>1, <1>2, <1>3, <1>4, <1>5, <1>6, <1>7, <1>8, <1>9, <1>10, <1>11
  DEF DomNext, Adaptation

(* The inductive invariant holds of every behaviour of the page.            *)
THEOREM DomInvariant == DomSpec => []DomInv
  BY InitDomInv, NextDomInv, PTL DEF DomSpec

(* The page's variables are always of their types.                          *)
THEOREM DomTypesHold == DomSpec => []DomTypeOK
<1>1. ASSUME DomInv PROVE DomTypeOK
  <2>1. /\ mounted \in BOOLEAN /\ disturbed \subseteq Elements /\ described \subseteq Elements
        /\ dom \in [Elements -> Attributes] /\ open \in [Sections -> BOOLEAN]
    BY <1>1 DEF DomInv, DomTypes, Page, Pages
  <2> QED
    BY <2>1 DEF DomTypeOK, Attributes
<1>2. DomInv => DomTypeOK
  BY <1>1
<1> QED
  BY <1>2, DomInvariant, PTL

(***************************************************************************)
(* aria-expanded: what the host renders, but where a tooltip is or was.     *)
(***************************************************************************)
AriaHeld(n) ==
  \/ dom[n].expanded = HostAria(n)
  \/ n \in described /\ (dom[n].expanded = "absent" \/ Tipping(n))
AriaInv ==
  /\ DomInv
  /\ \A n \in Elements : AriaHeld(n) /\ (Tipping(n) => n \in described)

(* React sets the attribute to a changed state; else it is as it was left.  *)
LEMMA SetPageAria ==
  ASSUME NEW p \in Pages, SetPage(p), NEW n \in Elements
  PROVE  \/ dom'[n].expanded = HostAria(n)'
         \/ dom'[n].expanded = p.dom[n].expanded /\ HostAria(n)' = HostAria(n)
<1>1. /\ open' = p.open /\ p.dom[n] \in Attributes
      /\ dom'[n] = IF n \in Sections /\ p.open[n] # open[n]
                   THEN [p.dom[n] EXCEPT !.expanded = Attr(p.open[n])] ELSE p.dom[n]
  BY DEF SetPage, Pages
<1>2. CASE n \in Sections /\ p.open[n] # open[n]
  <2>1. dom'[n].expanded = Attr(p.open[n])
    BY <1>1, <1>2 DEF Attributes
  <2> QED
    BY <2>1, <1>1, <1>2 DEF HostAria
<1>3. CASE ~(n \in Sections /\ p.open[n] # open[n])
  BY <1>1, <1>3 DEF HostAria
<1> QED
  BY <1>2, <1>3

(* The cleanups of S: a tooltip's takes the attribute away, no other does.  *)
LEMMA ClearingKeepsAria ==
  ASSUME AriaInv, NEW S \in SUBSET Types, active' = ActiveAfter(S),
         SetPage(Cleaned(S)), UNCHANGED <<saved, described>>, NEW n \in Elements
  PROVE  AriaHeld(n)' /\ (Tipping(n)' => n \in described')
<1>1. /\ Cleaned(S) \in Pages
      /\ Cleaned(S).dom[n].expanded =
           IF Tipping(n) /\ "expand_tooltip" \in S THEN "absent" ELSE dom[n].expanded
  BY CleanedPage DEF AriaInv
<1>2. \/ dom'[n].expanded = HostAria(n)'
      \/ dom'[n].expanded = Cleaned(S).dom[n].expanded /\ HostAria(n)' = HostAria(n)
  BY <1>1, SetPageAria
<1>3. Tipping(n)' <=> Tipping(n) /\ "expand_tooltip" \notin S
  BY DEF Tipping, ActiveAfter
<1>4. AriaHeld(n) /\ (Tipping(n) => n \in described) /\ described' = described
  BY DEF AriaInv
<1> QED
  BY <1>1, <1>2, <1>3, <1>4 DEF AriaHeld

(* An adaptation put on the page writes the attribute only if a tooltip,    *)
(* and then on the element it is on.                                        *)
LEMMA InstallKeepsAria ==
  ASSUME AriaInv, NEW t \in Types, NEW el \in Elements, NEW markEl \in Elements,
         NEW folded, NEW shown \in Pages,
         \A n \in Elements : \/ t = "expand_tooltip" /\ n = el
                            \/ shown.dom[n].expanded = Cleaned({t}).dom[n].expanded,
         begun + 1 \in Episodes, active' = [active EXCEPT ![t] = begun + 1],
         Install(t, shown, Record(Cleaned({t}), el, markEl, folded)), NEW n \in Elements
  PROVE  AriaHeld(n)' /\ (Tipping(n)' => n \in described')
<1> DEFINE record == Record(Cleaned({t}), el, markEl, folded)
           marked == SetMark(shown, markEl, begun + 1)
<1>r. record.el = el /\ record.markEl = markEl /\ record.detached = FALSE
  BY DEF Record
<1>i. /\ SetPage(marked) /\ saved' = [saved EXCEPT ![t] = record]
      /\ described' = IF t = "expand_tooltip" THEN described \cup {el} ELSE described
  BY <1>r DEF Install
<1> HIDE DEF record
<1>c. Cleaned({t}).dom[n].expanded =
        IF Tipping(n) /\ t = "expand_tooltip" THEN "absent" ELSE dom[n].expanded
  BY CleanedPage DEF AriaInv
<1>m. marked \in Pages /\ marked.dom[n].expanded = shown.dom[n].expanded
  BY SetMarkEffect DEF Episodes
<1> HIDE DEF marked
<1>1. \/ dom'[n].expanded = HostAria(n)'
      \/ dom'[n].expanded = shown.dom[n].expanded /\ HostAria(n)' = HostAria(n)
  BY <1>i, <1>m, SetPageAria
<1>2. AriaHeld(n) /\ (Tipping(n) => n \in described)
  BY DEF AriaInv
<1>t. /\ active \in [Types -> 0..MaxEpisodes] /\ saved \in [Types -> Records]
      /\ begun + 1 # None
  BY DEF AriaInv, DomInv, DomTypes, ActuatorInv, TypeOK, Episodes, None
<1>3. CASE t = "expand_tooltip"
  <2>1. Tipping(n)' <=> n = el
    BY <1>3, <1>t, <1>i, <1>r DEF Tipping
  <2> QED
    BY <2>1, <1>1, <1>2, <1>c, <1>i, <1>3 DEF AriaHeld
<1>4. CASE t # "expand_tooltip"
  <2>1. Tipping(n)' <=> Tipping(n)
    BY <1>4, <1>t, <1>i DEF Tipping
  <2> QED
    BY <2>1, <1>1, <1>2, <1>c, <1>i, <1>4 DEF AriaHeld
<1> QED
  BY <1>3, <1>4

(* The highlight and the tooltip.                                           *)
LEMMA AdaptElementKeepsAria ==
  ASSUME AriaInv, NEW t \in Types, NEW el \in Elements, AdaptElement(t, el), NEW n \in Elements
  PROVE  AriaHeld(n)' /\ (Tipping(n)' => n \in described')
<1> DEFINE q == Cleaned({t})
           tokened == Tokened(q, el, t)
           told == [tokened EXCEPT !.dom[el].expanded = "true"]
           shown == IF t = "expand_tooltip" THEN told ELSE tokened
<1>1. Apply(t, TRUE) /\ Install(t, shown, Record(q, el, el, {}))
  BY DEF AdaptElement
<1>2. q \in Pages
  BY CleanedPage DEF AriaInv
<1> HIDE DEF q
<1>3. tokened \in Pages /\ \A m \in Elements : tokened.dom[m].expanded = q.dom[m].expanded
  BY <1>2, TokenedEffect
<1> HIDE DEF tokened
<1>4. told \in Pages /\ \A m \in Elements \ {el} : told.dom[m].expanded = tokened.dom[m].expanded
  <2> DEFINE a == [tokened.dom[el] EXCEPT !.expanded = "true"]
  <2>1. /\ tokened.dom \in [Elements -> Attributes] /\ tokened.open \in [Sections -> BOOLEAN]
        /\ tokened = [dom |-> tokened.dom, open |-> tokened.open]
    BY <1>3 DEF Pages
  <2>2. told = [dom |-> [tokened.dom EXCEPT ![el] = a], open |-> tokened.open]
    BY <2>1
  <2>3. tokened.dom[el] \in Attributes
    BY <2>1
  <2>4. a \in Attributes
    BY <2>3 DEF Attributes
  <2> HIDE DEF a, told
  <2> QED
    BY <2>1, <2>2, <2>4 DEF Pages
<1> HIDE DEF told
<1>5. /\ shown \in Pages
      /\ \A m \in Elements : \/ t = "expand_tooltip" /\ m = el
                            \/ shown.dom[m].expanded = q.dom[m].expanded
  BY <1>3, <1>4
<1> HIDE DEF shown
<1>6. begun + 1 \in Episodes /\ active' = [active EXCEPT ![t] = begun + 1]
  BY <1>1, ActuatorAssumption DEF Apply, AriaInv, DomInv, ActuatorInv, TypeOK, Episodes
<1> QED
  BY <1>1, <1>5, <1>6, InstallKeepsAria DEF q

(* The simplification.                                                      *)
LEMMA SimplifyKeepsAria ==
  ASSUME AriaInv, NEW focused, Simplify(focused), NEW n \in Elements
  PROVE  AriaHeld(n)' /\ (Tipping(n)' => n \in described')
<1> DEFINE t == "simplify_options"
           q == Cleaned({t})
           tokened == Tokened(q, Drawer, t)
           folded == {s \in Sections \ focused : q.dom[s].expanded = "true"}
           shown == ClickAll(tokened, folded)
<1>1. t \in Types /\ Apply(t, TRUE) /\ Install(t, shown, Record(q, Drawer, FirstSection, folded))
  BY DEF Simplify
<1>2. q \in Pages
  BY <1>1, CleanedPage DEF AriaInv
<1> HIDE DEF q, folded
<1>o. Drawer \in Elements /\ FirstSection \in Elements
  BY PageAssumption DEF OnPage, Elements
<1>3. tokened \in Pages /\ \A m \in Elements : tokened.dom[m].expanded = q.dom[m].expanded
  BY <1>1, <1>2, <1>o, TokenedEffect
<1> HIDE DEF tokened
<1>5. shown \in Pages /\ \A m \in Elements : shown.dom[m].expanded = q.dom[m].expanded
  BY <1>3, ClickAllEffect
<1> HIDE DEF shown
<1>6. begun + 1 \in Episodes /\ active' = [active EXCEPT ![t] = begun + 1]
  BY <1>1, ActuatorAssumption DEF Apply, AriaInv, DomInv, ActuatorInv, TypeOK, Episodes
<1> QED
  BY <1>1, <1>5, <1>6, <1>o, InstallKeepsAria DEF q

(* The user opens or closes a section.                                      *)
LEMMA ToggleKeepsAria ==
  ASSUME AriaInv, NEW s \in Sections, Toggle(s), NEW n \in Elements
  PROVE  AriaHeld(n)' /\ (Tipping(n)' => n \in described')
<1>1. SetPage(Click(Page, s)) /\ active' = active /\ saved' = saved /\ described' = described
  BY DEF Toggle, actuatorVars
<1>2. Click(Page, s) \in Pages /\ Click(Page, s).dom = dom
  <2>1. dom \in [Elements -> Attributes] /\ open \in [Sections -> BOOLEAN]
    BY DEF AriaInv, DomInv, DomTypes, Page, Pages
  <2>2. Click(Page, s) = [dom |-> dom, open |-> [open EXCEPT ![s] = ~open[s]]]
    BY DEF Click, Page
  <2> QED
    BY <2>1, <2>2 DEF Pages
<1>3. \/ dom'[n].expanded = HostAria(n)'
      \/ dom'[n].expanded = dom[n].expanded /\ HostAria(n)' = HostAria(n)
  BY <1>1, <1>2, SetPageAria
<1>4. Tipping(n)' <=> Tipping(n)
  BY <1>1 DEF Tipping
<1>5. AriaHeld(n) /\ (Tipping(n) => n \in described)
  BY DEF AriaInv
<1> QED
  BY <1>1, <1>3, <1>4, <1>5 DEF AriaHeld

(* The user navigates: what is mounted anew is as rendered.                 *)
LEMMA NavigateKeepsAria ==
  ASSUME AriaInv, Navigate, NEW n \in Elements
  PROVE  AriaHeld(n)' /\ (Tipping(n)' => n \in described')
<1>1. /\ active' = active /\ open' = [s \in Sections |-> FALSE]
      /\ described' = described \cap {Nav}
      /\ dom'[n] = IF n = Nav THEN [dom[Nav] EXCEPT !.host = NavClass(~mounted), !.tokens = {}]
                   ELSE Rendered(n, ~mounted)
  BY DEF Navigate, actuatorVars
<1>2. saved \in [Types -> Records] /\ dom \in [Elements -> Attributes]
  BY DEF AriaInv, DomInv, DomTypes, Page, Pages
<1>3. AriaHeld(n) /\ (Tipping(n) => n \in described)
  BY DEF AriaInv
<1>o. n # Nav => n \in OnPage
  BY DEF Elements
<1>s. Nav \notin Sections
  BY PageAssumption DEF OnPage
<1>4. Tipping(n)' <=> Tipping(n) /\ n \notin OnPage
  <2> SUFFICES ASSUME "expand_tooltip" \in Types PROVE Tipping(n)' <=> Tipping(n) /\ n \notin OnPage
    BY DEF Tipping
  <2> DEFINE r == saved["expand_tooltip"]
  <2>1. r \in Records /\ saved'["expand_tooltip"] = IF r.el \in OnPage THEN [r EXCEPT !.detached = TRUE] ELSE r
    BY <1>2 DEF Navigate
  <2> HIDE DEF r
  <2>2. r.el \in OnPage => saved'["expand_tooltip"].detached
    BY <2>1 DEF Records
  <2>3. r.el \notin OnPage => saved'["expand_tooltip"] = r
    BY <2>1
  <2>4. saved'["expand_tooltip"].el = r.el
    BY <2>1 DEF Records
  <2> QED
    BY <1>1, <2>2, <2>3, <2>4 DEF Tipping, r
<1>5. CASE n = Nav
  <2>1. dom'[n].expanded = dom[n].expanded
    BY <1>1, <1>2, <1>5 DEF Attributes
  <2>2. HostAria(n)' = HostAria(n) /\ n \notin OnPage
    BY <1>5, <1>s, PageAssumption DEF HostAria
  <2> QED
    BY <1>1, <1>3, <1>4, <1>5, <2>1, <2>2 DEF AriaHeld
<1>6. CASE n # Nav
  <2>1. dom'[n].expanded = HostAria(n)'
    BY <1>1, <1>6 DEF Rendered, HostAria, Attr
  <2> QED
    BY <1>4, <1>6, <1>o, <2>1 DEF AriaHeld
<1> QED
  BY <1>5, <1>6

(* The banner's steps.                                                      *)
LEMMA BannerKeepsAria ==
  ASSUME AriaInv, UNCHANGED domVars, NEW n \in Elements,
         \A t \in Types \ {"offer_assistance"} : active'[t] = active[t]
  PROVE  AriaHeld(n)' /\ (Tipping(n)' => n \in described')
<1>1. /\ dom' = dom /\ open' = open /\ described' = described
      /\ Tipping(n)' <=> Tipping(n)
  BY DEF domVars, Tipping
<1> QED
  BY <1>1 DEF AriaInv, AriaHeld, HostAria

(* Every step keeps aria-expanded accounted for.                            *)
LEMMA NextAriaInv == AriaInv /\ [DomNext]_vars => AriaInv'
<1> SUFFICES ASSUME AriaInv, [DomNext]_vars PROVE AriaInv'
  OBVIOUS
<1>d. DomInv'
  BY NextDomInv DEF AriaInv
<1> SUFFICES ASSUME NEW n \in Elements PROVE AriaHeld(n)' /\ (Tipping(n)' => n \in described')
  BY <1>d DEF AriaInv
<1> DEFINE Kept == AriaHeld(n)' /\ (Tipping(n)' => n \in described')
<1>a. ActuatorInv
  BY DEF AriaInv, DomInv
<1>c. ASSUME NEW S \in SUBSET Types, active' = ActiveAfter(S), SetPage(Cleaned(S)),
             UNCHANGED <<saved, described>>
      PROVE  Kept
  BY <1>c, ClearingKeepsAria
<1>b. ASSUME UNCHANGED domVars, \A t \in Types \ {"offer_assistance"} : active'[t] = active[t]
      PROVE  Kept
  BY <1>b, BannerKeepsAria
<1>1. ASSUME NEW t \in Types, NEW el \in Elements, AdaptElement(t, el) PROVE Kept
  BY <1>1, AdaptElementKeepsAria
<1>2. ASSUME NEW focused, Simplify(focused) PROVE Kept
  BY <1>2, SimplifyKeepsAria
<1>9. ASSUME NEW s \in Sections, Toggle(s) PROVE Kept
  BY <1>9, ToggleKeepsAria
<1>10. CASE Navigate
  BY <1>10, NavigateKeepsAria
<1>3. ASSUME NEW t \in Types, AdaptNothing(t) PROVE Kept
  <2>1. active' = ActiveAfter({t}) /\ SetPage(Cleaned({t})) /\ UNCHANGED <<saved, described>>
    BY <1>3 DEF AdaptNothing, Apply
  <2> QED
    BY <2>1, <1>c
<1>4. CASE OfferAssistance
  <2>1. UNCHANGED domVars /\ \A t \in Types \ {"offer_assistance"} : active'[t] = active[t]
    BY <1>4, <1>a DEF OfferAssistance, Apply, ActuatorInv, TypeOK
  <2> QED
    BY <2>1, <1>b
<1>5. ASSUME NEW t \in Types, NEW e \in Episodes, ExpireAndClean(t, e) PROVE Kept
  <2>1. active' = ActiveAfter({t}) /\ SetPage(Cleaned({t})) /\ UNCHANGED <<saved, described>>
    BY <1>5 DEF ExpireAndClean, Expire, End
  <2> QED
    BY <2>1, <1>c
<1>6. CASE EscapeAndClean
  <2> DEFINE S == {h[1] : h \in handlers}
  <2>1. S \in SUBSET Types
    BY <1>a DEF ActuatorInv, TypeOK
  <2>2. active' = ActiveAfter(S) /\ SetPage(Cleaned(S)) /\ UNCHANGED <<saved, described>>
    BY <1>6, DismissClears DEF EscapeAndClean, PressEscape, End
  <2> HIDE DEF S
  <2> QED
    BY <2>1, <2>2, <1>c
<1>7. CASE ClickAndClean
  <2>1. PICK h \in handlers : h[1] \in WithButton /\ Dismiss({h})
    BY <1>7 DEF ClickAndClean, ClickDismiss
  <2>2. active' = ActiveAfter({h[1]}) /\ h[1] = "offer_assistance"
    BY <2>1, DismissClears DEF WithButton
  <2>3. UNCHANGED domVars /\ \A t \in Types \ {"offer_assistance"} : active'[t] = active[t]
    BY <1>7, <2>2 DEF ClickAndClean, ActiveAfter
  <2> QED
    BY <2>3, <1>b
<1>8. CASE ResetAndClean
  <2>1. active' = ActiveAfter(Types) /\ SetPage(Cleaned(Types)) /\ UNCHANGED <<saved, described>>
    BY <1>8 DEF ResetAndClean, Reset, Clear, End
  <2> QED
    BY <2>1, <1>c
<1>11. CASE UNCHANGED vars
  BY <1>11, <1>b DEF vars, actuatorVars
<1> QED
  BY <1>1, <1>2, <1>3, <1>4, <1>5, <1>6, <1>7, <1>8, <1>9, <1>10, <1>11
  DEF DomNext, Adaptation

(* A node that no two live adaptations shared and the host did not rewrite  *)
(* meanwhile has, once none holds it, the class it was rendered with, no    *)
(* mark, and the aria-expanded the host gives it, which only a node that    *)
(* carried a tooltip may lack instead, whatever ended the adaptations and   *)
(* in whatever order (the cleanup closures and unmark() of actuator.ts).    *)
THEOREM NodesAreRestored == DomSpec => []RestoredWhenUndisturbed
<1>1. DomInit => AriaInv
  <2> SUFFICES ASSUME DomInit PROVE AriaInv
    OBVIOUS
  <2>1. \A n \in Elements : dom[n].expanded = HostAria(n) /\ ~Tipping(n)
    BY DEF DomInit, Init, Rendered, HostAria, Attr, Tipping
  <2> QED
    BY <2>1, InitDomInv DEF AriaInv, AriaHeld
<1>2. AriaInv => RestoredWhenUndisturbed
  <2> SUFFICES ASSUME AriaInv, NEW n \in Elements \ disturbed, LiveHolders(n) = {}
               PROVE  /\ PlainClass(dom[n], n) /\ Unmarked(dom[n])
                      /\ \/ dom[n].expanded = HostAria(n)
                         \/ n \in described /\ dom[n].expanded = "absent"
    BY DEF RestoredWhenUndisturbed, PlainClass, Unmarked
  <2>1. PlainClass(dom[n], n) /\ Unmarked(dom[n])
    BY DEF AriaInv, DomInv, NodesPlain
  <2>2. ~Tipping(n)
    BY DEF Tipping, LiveHolders, Holds
  <2> QED
    BY <2>1, <2>2 DEF AriaInv, AriaHeld
<1> QED
  BY <1>1, <1>2, NextAriaInv, PTL DEF DomSpec

(* On the page the actuator behaves as it does alone, so that its           *)
(* invariants and its refinement of the episode lifecycle hold there too.   *)
THEOREM PageImplementsActuator == DomSpec => Spec /\ []ActuatorInv /\ ImplementsLifecycle
<1>1. DomInit => Init
  BY DEF DomInit
<1>2. DomSpec => Spec
  BY <1>1, PageStepsAreActuatorSteps, PTL DEF DomSpec, Spec
<1> QED
  BY <1>2, ActuatorInvariant, ActuatorImplementsLifecycle, PTL

(***************************************************************************)
(* The sections of the drawer and the user.                                 *)
(***************************************************************************)
(* In a section without a tooltip and not closed by the simplification, the *)
(* attribute a cleanup reads is what the host holds.                        *)
LEMMA CleanedSections ==
  ASSUME WantedInv, NEW S \in SUBSET Types, NEW s \in Sections \ (disturbed \cup tipped)
  PROVE  /\ Cleaned(S).open[s] = IF FoldedByIt(s) /\ "simplify_options" \in S
                                 THEN ~open[s] ELSE open[s]
         /\ Cleaned(S).dom[s].expanded = "true" => open[s]
<1>1. dom[s].expanded = Attr(open[s]) /\ (FoldedByIt(s) => ~open[s])
  BY DEF WantedInv, AriaFollows, FoldedAreClosed
<1>2. s \in Elements
  BY DEF Elements, OnPage
<1>3. /\ Cleaned(S).open[s] = IF FoldedByIt(s) /\ "simplify_options" \in S
                              THEN ~open[s] ELSE open[s]
      /\ Cleaned(S).dom[s].expanded \in {dom[s].expanded, "absent"}
  BY <1>1, <1>2, CleanedPage DEF WantedInv
<1> QED
  BY <1>1, <1>3 DEF Attr

(* What the sections are after a step that runs the cleanups of S.          *)
LEMMA ClearingKeepsSections ==
  ASSUME WantedInv, NEW S \in SUBSET Types, active' = ActiveAfter(S),
         SetPage(Cleaned(S)), UNCHANGED <<saved, disturbed, wanted>>,
         tipped \subseteq tipped'
  PROVE  FoldedAreClosed'
<1> SUFFICES ASSUME NEW s \in Sections \ (disturbed \cup tipped)
             PROVE  IF FoldedByIt(s)' THEN wanted[s] /\ ~open'[s] ELSE open'[s] = wanted[s]
  BY DEF FoldedAreClosed
<1>1. open'[s] = Cleaned(S).open[s]
  BY DEF SetPage
<1>2. FoldedByIt(s)' <=> FoldedByIt(s) /\ "simplify_options" \notin S
  BY DEF FoldedByIt, Folding, Simplified, ActiveAfter
<1>3. IF FoldedByIt(s) THEN wanted[s] /\ ~open[s] ELSE open[s] = wanted[s]
  BY DEF WantedInv, FoldedAreClosed
<1>4. open[s] \in BOOLEAN /\ wanted[s] \in BOOLEAN
  BY DEF WantedInv, DomInv, DomTypes, Page, Pages
<1> QED
  BY <1>1, <1>2, <1>3, <1>4, CleanedSections

(* A highlight or a tooltip touches no section's state.                     *)
LEMMA AdaptElementKeepsSections ==
  ASSUME WantedInv, NEW t \in Types, NEW el \in Elements, AdaptElement(t, el),
         wanted' = wanted, tipped \subseteq tipped'
  PROVE  FoldedAreClosed'
<1> DEFINE q == Cleaned({t})
           tokened == Tokened(q, el, t)
           shown == IF t = "expand_tooltip" THEN [tokened EXCEPT !.dom[el].expanded = "true"]
                    ELSE tokened
           record == Record(q, el, el, {})
<1>1. /\ t # "simplify_options" /\ Apply(t, TRUE) /\ Install(t, shown, record)
  BY DEF AdaptElement
<1>2. /\ open' = SetMark(shown, record.markEl, begun + 1).open
      /\ saved' = [saved EXCEPT ![t] = record] /\ disturbed \subseteq disturbed'
  BY <1>1 DEF Install, SetPage
<1>q. q \in Pages
  BY CleanedPage DEF WantedInv
<1>3. open' = q.open
  <2>1. record.markEl = el
    BY DEF Record
  <2>2. begun + 1 \in 0..MaxEpisodes
    BY <1>1, ActuatorAssumption DEF Apply, WantedInv, DomInv, ActuatorInv, TypeOK
  <2> HIDE DEF q, record
  <2>3. tokened \in Pages /\ tokened.open = q.open
    BY <1>q, TokenedEffect
  <2> HIDE DEF tokened
  <2>4. shown.open = q.open
    BY <2>3 DEF Pages
  <2>5. SetMark(shown, el, begun + 1).open = shown.open
    <3> HIDE DEF shown
    <3>1. shown = [dom |-> shown.dom, open |-> shown.open]
      BY <2>3 DEF shown, Pages
    <3> QED
      BY <3>1 DEF SetMark
  <2> QED
    BY <1>2, <2>1, <2>4, <2>5
<1>4. ASSUME NEW s \in Sections \ (disturbed \cup tipped)
      PROVE  IF FoldedByIt(s)' THEN wanted[s] /\ ~open'[s] ELSE open'[s] = wanted[s]
  <2>1. open'[s] = open[s]
    BY <1>1, <1>3, CleanedSections
  <2>2. FoldedByIt(s)' <=> FoldedByIt(s)
    <3>1. t # "simplify_options" /\ active' = [active EXCEPT ![t] = begun + 1]
      BY <1>1 DEF Apply
    <3>2. "simplify_options" \in Types =>
            /\ active'["simplify_options"] = active["simplify_options"]
            /\ saved'["simplify_options"] = saved["simplify_options"]
      BY <3>1, <1>2 DEF WantedInv, DomInv, ActuatorInv, TypeOK, DomTypes
    <3> QED
      BY <3>2 DEF FoldedByIt, Folding, Simplified
  <2> QED
    BY <2>1, <2>2 DEF WantedInv, FoldedAreClosed
<1> QED
  BY <1>2, <1>4 DEF FoldedAreClosed

(* A simplification closes sections the user left open and remembers them.  *)
LEMMA SimplifyKeepsSections ==
  ASSUME WantedInv, NEW focused, Simplify(focused), wanted' = wanted, tipped \subseteq tipped'
  PROVE  FoldedAreClosed'
<1> DEFINE t == "simplify_options"
           q == Cleaned({t})
           tokened == Tokened(q, Drawer, t)
           folded == {s \in Sections \ focused : q.dom[s].expanded = "true"}
           shown == ClickAll(tokened, folded)
           record == Record(q, Drawer, FirstSection, folded)
<1>1. t \in Types /\ Apply(t, TRUE) /\ Install(t, shown, record)
  BY DEF Simplify
<1>2. /\ open' = SetMark(shown, record.markEl, begun + 1).open
      /\ saved' = [saved EXCEPT ![t] = record] /\ disturbed \subseteq disturbed'
  BY <1>1 DEF Install, SetPage
<1>r. record.folded = folded /\ record.detached = FALSE /\ record.markEl = FirstSection
  BY DEF Record
<1>q. q \in Pages /\ Drawer \in Elements /\ FirstSection \in Elements
  BY <1>1, CleanedPage, PageAssumption DEF WantedInv, Elements, OnPage
<1>b. begun + 1 \in 0..MaxEpisodes /\ begun + 1 # None
  BY <1>1, ActuatorAssumption DEF Apply, WantedInv, DomInv, ActuatorInv, TypeOK, None
<1>f. \A s \in Sections : s \in folded => q.dom[s].expanded = "true"
  OBVIOUS
<1> HIDE DEF q, folded, record
<1>3. tokened \in Pages /\ tokened.open = q.open
  BY <1>1, <1>q, TokenedEffect
<1> HIDE DEF tokened
<1>4. /\ shown \in Pages
      /\ \A s \in Sections : shown.open[s] = IF s \in folded THEN ~q.open[s] ELSE q.open[s]
  BY <1>3, ClickAllEffect
<1> HIDE DEF shown
<1>5. open' = shown.open
  BY <1>2, <1>4, <1>r, <1>q, <1>b, SetMarkEffect
<1>6. \A s : FoldedByIt(s)' <=> s \in folded
  <2>1. active'[t] = begun + 1 /\ saved'[t] = record
    BY <1>1, <1>2 DEF Apply, WantedInv, DomInv, ActuatorInv, TypeOK, DomTypes
  <2> QED
    BY <1>1, <1>b, <1>r, <2>1 DEF FoldedByIt, Folding, Simplified
<1>7. ASSUME NEW s \in Sections \ (disturbed \cup tipped)
      PROVE  IF FoldedByIt(s)' THEN wanted[s] /\ ~open'[s] ELSE open'[s] = wanted[s]
  <2>1. /\ q.open[s] = IF FoldedByIt(s) THEN ~open[s] ELSE open[s]
        /\ q.dom[s].expanded = "true" => open[s]
    BY <1>1, CleanedSections DEF q
  <2>2. IF FoldedByIt(s) THEN wanted[s] /\ ~open[s] ELSE open[s] = wanted[s]
    BY DEF WantedInv, FoldedAreClosed
  <2>3. open[s] \in BOOLEAN /\ wanted[s] \in BOOLEAN
    BY DEF WantedInv, DomInv, DomTypes, Page, Pages
  <2>4. CASE s \in folded
    <3>1. open[s] /\ ~FoldedByIt(s)
      BY <2>1, <2>2, <2>4, <1>f
    <3>2. q.open[s] = open[s] /\ wanted[s]
      BY <2>1, <2>2, <2>3, <3>1
    <3>3. open'[s] = ~q.open[s]
      BY <2>4, <1>4, <1>5
    <3> QED
      BY <2>4, <3>1, <3>2, <3>3, <1>6
  <2>5. CASE s \notin folded
    <3>1. open'[s] = q.open[s]
      BY <2>5, <1>4, <1>5
    <3>2. q.open[s] = wanted[s]
      BY <2>1, <2>2, <2>3
    <3> QED
      BY <2>5, <3>1, <3>2, <1>6
  <2> QED
    BY <2>4, <2>5
<1> QED
  BY <1>2, <1>7 DEF FoldedAreClosed

(* The user's toggle is what the user wants.                                *)
LEMMA ToggleKeepsSections ==
  ASSUME WantedInv, NEW s \in Sections, Toggle(s), wanted' = [wanted EXCEPT ![s] = ~open[s]],
         tipped \subseteq tipped'
  PROVE  FoldedAreClosed'
<1>1. /\ active' = active /\ saved' = saved /\ open' = [open EXCEPT ![s] = ~open[s]]
      /\ disturbed' = IF Simplified THEN disturbed \cup {s} ELSE disturbed
  BY DEF Toggle, actuatorVars, SetPage, Click, Page
<1>2. open \in [Sections -> BOOLEAN] /\ wanted \in [Sections -> BOOLEAN]
  BY DEF WantedInv, DomInv, DomTypes, Page, Pages
<1> SUFFICES ASSUME NEW r \in Sections \ (disturbed' \cup tipped)
             PROVE  IF FoldedByIt(r)' THEN wanted'[r] /\ ~open'[r] ELSE open'[r] = wanted'[r]
  BY DEF FoldedAreClosed
<1>3. FoldedByIt(r)' <=> FoldedByIt(r)
  BY <1>1 DEF FoldedByIt, Folding, Simplified
<1>4. CASE r = s
  <2>1. ~FoldedByIt(r)
    BY <1>1, <1>4 DEF FoldedByIt, Folding
  <2> QED
    BY <2>1, <1>1, <1>2, <1>3, <1>4
<1>5. CASE r # s
  <2>1. open'[r] = open[r] /\ wanted'[r] = wanted[r] /\ r \notin disturbed
    BY <1>1, <1>2, <1>5
  <2> QED
    BY <2>1, <1>3 DEF WantedInv, FoldedAreClosed
<1> QED
  BY <1>4, <1>5

(* Navigation mounts or unmounts the drawer with every section closed.      *)
LEMMA NavigateKeepsSections ==
  ASSUME WantedInv, Navigate, wanted' = [s \in Sections |-> FALSE]
  PROVE  FoldedAreClosed'
<1>1. open' = [s \in Sections |-> FALSE] /\ active' = active
  BY DEF Navigate, actuatorVars
<1>2. ~Folding'
  <2> SUFFICES ASSUME Folding' PROVE FALSE
    OBVIOUS
  <2>1. "simplify_options" \in Types /\ ~saved'["simplify_options"].detached
    BY DEF Folding, Simplified
  <2>2. saved["simplify_options"] \in Records
    BY <2>1 DEF WantedInv, DomInv, DomTypes
  <2>3. CASE saved["simplify_options"].el \in OnPage
    <3>1. saved'["simplify_options"] = [saved["simplify_options"] EXCEPT !.detached = TRUE]
      BY <2>1, <2>3 DEF Navigate
    <3> QED
      BY <2>1, <2>2, <3>1 DEF Records
  <2>4. CASE saved["simplify_options"].el \notin OnPage
    <3>1. saved'["simplify_options"] = saved["simplify_options"]
      BY <2>1, <2>4 DEF Navigate
    <3> QED
      BY <2>1, <2>4, <3>1 DEF WantedInv, DomInv, DrawerHeld
  <2> QED
    BY <2>3, <2>4
<1>3. \A s : ~FoldedByIt(s)'
  BY <1>2 DEF FoldedByIt
<1> QED
  BY <1>1, <1>3 DEF FoldedAreClosed

(* The banner's steps.                                                      *)
LEMMA BannerKeepsSections ==
  ASSUME WantedInv, UNCHANGED domVars, wanted' = wanted, tipped \subseteq tipped',
         \A t \in Types \ {"offer_assistance"} : active'[t] = active[t]
  PROVE  FoldedAreClosed'
<1>1. open' = open /\ saved' = saved /\ disturbed' = disturbed
  BY DEF domVars
<1>2. \A s : FoldedByIt(s)' <=> FoldedByIt(s)
  BY <1>1 DEF FoldedByIt, Folding, Simplified
<1> QED
  BY <1>1, <1>2 DEF WantedInv, FoldedAreClosed

(* An adaptation, or the end of one.                                        *)
LEMMA AdaptationKeepsSections ==
  ASSUME WantedInv, Adaptation, wanted' = wanted, tipped \subseteq tipped'
  PROVE  FoldedAreClosed'
<1>a. ActuatorInv
  BY DEF WantedInv, DomInv
<1>1. ASSUME NEW t \in Types, NEW el \in Elements, AdaptElement(t, el) PROVE FoldedAreClosed'
  BY <1>1, AdaptElementKeepsSections
<1>2. ASSUME NEW focused, Simplify(focused) PROVE FoldedAreClosed'
  BY <1>2, SimplifyKeepsSections
<1>3. ASSUME NEW t \in Types, AdaptNothing(t) PROVE FoldedAreClosed'
  <2>1. active' = ActiveAfter({t}) /\ SetPage(Cleaned({t})) /\ UNCHANGED <<saved, disturbed>>
    BY <1>3 DEF AdaptNothing, Apply
  <2> QED
    BY <2>1, ClearingKeepsSections
<1>4. CASE OfferAssistance
  <2>1. UNCHANGED domVars /\ \A t \in Types \ {"offer_assistance"} : active'[t] = active[t]
    BY <1>4, <1>a DEF OfferAssistance, Apply, ActuatorInv, TypeOK
  <2> QED
    BY <2>1, BannerKeepsSections
<1>5. ASSUME NEW t \in Types, NEW e \in Episodes, ExpireAndClean(t, e) PROVE FoldedAreClosed'
  <2>1. active' = ActiveAfter({t}) /\ SetPage(Cleaned({t})) /\ UNCHANGED <<saved, disturbed>>
    BY <1>5 DEF ExpireAndClean, Expire, End
  <2> QED
    BY <2>1, ClearingKeepsSections
<1>6. CASE EscapeAndClean
  <2> DEFINE S == {h[1] : h \in handlers}
  <2>1. S \in SUBSET Types
    BY <1>a DEF ActuatorInv, TypeOK
  <2>2. active' = ActiveAfter(S) /\ SetPage(Cleaned(S)) /\ UNCHANGED <<saved, disturbed>>
    BY <1>6, DismissClears DEF EscapeAndClean, PressEscape, End
  <2> HIDE DEF S
  <2> QED
    BY <2>1, <2>2, ClearingKeepsSections
<1>7. CASE ClickAndClean
  <2>1. PICK h \in handlers : h[1] \in WithButton /\ Dismiss({h})
    BY <1>7 DEF ClickAndClean, ClickDismiss
  <2>2. active' = ActiveAfter({h[1]}) /\ h[1] = "offer_assistance"
    BY <2>1, DismissClears DEF WithButton
  <2>3. UNCHANGED domVars /\ \A t \in Types \ {"offer_assistance"} : active'[t] = active[t]
    BY <1>7, <2>2 DEF ClickAndClean, ActiveAfter
  <2> QED
    BY <2>3, BannerKeepsSections
<1>8. CASE ResetAndClean
  <2>1. active' = ActiveAfter(Types) /\ SetPage(Cleaned(Types)) /\ UNCHANGED <<saved, disturbed>>
    BY <1>8 DEF ResetAndClean, Reset, Clear, End
  <2> QED
    BY <2>1, ClearingKeepsSections
<1> QED
  BY <1>1, <1>2, <1>3, <1>4, <1>5, <1>6, <1>7, <1>8 DEF Adaptation

(* Every step of the page and its user preserves the invariant.             *)
LEMMA NextWantedInv == WantedInv /\ [WantedNext]_<<vars, wanted, tipped>> => WantedInv'
<1> SUFFICES ASSUME WantedInv, [WantedNext]_<<vars, wanted, tipped>> PROVE WantedInv'
  OBVIOUS
<1>1. [DomNext]_vars
  BY DEF WantedNext, DomNext
<1>2. DomInv'
  BY <1>1, NextDomInv DEF WantedInv
<1>3. CASE WantedNext
  <2>1. tipped' = tipped \cup {s \in Sections : dom'[s].expanded # Attr(open'[s])}
    BY <1>3 DEF WantedNext
  <2>2. open \in [Sections -> BOOLEAN] /\ wanted \in [Sections -> BOOLEAN]
    BY DEF WantedInv, DomInv, DomTypes, Page, Pages
  <2>3. AriaFollows'
    BY <2>1 DEF AriaFollows
  <2>4. ASSUME NEW s \in Sections, Toggle(s), wanted' = [wanted EXCEPT ![s] = ~open[s]]
        PROVE  wanted' \in [Sections -> BOOLEAN] /\ FoldedAreClosed'
    BY <2>1, <2>2, <2>4, ToggleKeepsSections
  <2>5. ASSUME Navigate, wanted' = [s \in Sections |-> FALSE]
        PROVE  wanted' \in [Sections -> BOOLEAN] /\ FoldedAreClosed'
    BY <2>5, NavigateKeepsSections
  <2>6. ASSUME Adaptation, wanted' = wanted
        PROVE  wanted' \in [Sections -> BOOLEAN] /\ FoldedAreClosed'
    BY <2>1, <2>2, <2>6, AdaptationKeepsSections
  <2>7. wanted' \in [Sections -> BOOLEAN] /\ FoldedAreClosed'
    BY <1>3, <2>4, <2>5, <2>6 DEF WantedNext
  <2> QED
    BY <1>2, <2>3, <2>7 DEF WantedInv
<1>4. CASE UNCHANGED <<vars, wanted, tipped>>
  <2>1. UNCHANGED domVars /\ active' = active /\ wanted' = wanted /\ tipped' = tipped
    BY <1>4 DEF vars, actuatorVars
  <2>2. FoldedAreClosed'
    BY <2>1, BannerKeepsSections
  <2>3. AriaFollows' /\ wanted' \in [Sections -> BOOLEAN]
    BY <2>1 DEF WantedInv, AriaFollows, domVars
  <2> QED
    BY <1>2, <2>2, <2>3 DEF WantedInv
<1> QED
  BY <1>3, <1>4

(* The inductive invariant holds of every behaviour of page and user.       *)
THEOREM WantedInvariant == WantedSpec => []WantedInv
<1>1. WantedInit => WantedInv
  <2> SUFFICES ASSUME WantedInit PROVE WantedInv
    OBVIOUS
  <2>1. DomInv /\ wanted = open /\ open = [s \in Sections |-> FALSE]
    BY InitDomInv DEF WantedInit, DomInit
  <2>2. AriaFollows
    BY DEF WantedInit, DomInit, AriaFollows, Rendered, Attr, Elements, OnPage
  <2>3. ~Simplified
    BY DEF WantedInit, DomInit, Init, Simplified
  <2> QED
    BY <2>1, <2>2, <2>3 DEF WantedInv, FoldedAreClosed, FoldedByIt, Folding
<1> QED
  BY <1>1, NextWantedInv, PTL DEF WantedSpec

(* Unless the user toggled it during a simplification or a tooltip rewrote  *)
(* its aria-expanded, a section is as the user left it whenever no          *)
(* simplification is live (applySimplifyOptions and its cleanup).           *)
THEOREM SectionsAreTheUsers == WantedSpec => []SectionsFollowUser
<1>1. WantedInv => SectionsFollowUser
  BY DEF WantedInv, FoldedAreClosed, FoldedByIt, Folding, SectionsFollowUser
<1> QED
  BY <1>1, WantedInvariant, PTL

(* The page beside its user is the page.                                    *)
THEOREM UserPageIsThePage == WantedSpec => DomSpec
<1>1. WantedInit => DomInit
  BY DEF WantedInit
<1>2. [WantedNext]_<<vars, wanted, tipped>> => [DomNext]_vars
  BY DEF WantedNext, DomNext
<1> QED
  BY <1>1, <1>2, PTL DEF WantedSpec, DomSpec
=============================================================================
