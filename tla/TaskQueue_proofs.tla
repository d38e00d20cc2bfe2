-------------------------- MODULE TaskQueue_proofs --------------------------
(***************************************************************************)
(* Proofs about the task queue, for every number of tasks and every        *)
(* timeout.                                                                *)
(*                                                                         *)
(* A pairing heap with its pointers children and next is a binary tree.    *)
(* Tree(P, B, D, q, S) says that the pointers P, with the pointers back B  *)
(* and the due times D, form such a tree with root q and the elements S.   *)
(* Trees are taken apart and put together (TreeParts, TreeJoin), are not   *)
(* affected by what happens outside of them (TreeFrame), and one of their  *)
(* elements can be replaced by what was below it (TreeWithout).            *)
(***************************************************************************)
EXTENDS TaskQueue, FiniteSetTheorems, WellFoundedInduction, NaturalsInduction, TLAPS

Fields == {"children", "next"}

\* The element t of a tree whose subtrees have the elements sp.
Node(P, B, D, S, sp, t) ==
  LET c == P[<<"children", t>>]
      n == P[<<"next", t>>]
  IN  /\ c \in S \cup {None} /\ n \in S \cup {None}
      /\ sp[t] = {t} \cup (sp[c] \cup sp[n])
      /\ t \notin sp[c] /\ t \notin sp[n] /\ sp[c] \cap sp[n] = {}
      /\ c # None => B[c] = <<"children", t>>
      /\ n # None => B[n] = <<"next", t>>
      /\ \A u \in sp[c] : D[t] <= D[u]

\* sp gives the elements of every subtree.
Spans(P, B, D, q, S, sp) ==
  /\ S \subseteq Tasks
  /\ sp \in [S \cup {None} -> SUBSET S]
  /\ sp[None] = {}
  /\ q \in S \cup {None} /\ sp[q] = S
  /\ \A t \in S : Node(P, B, D, S, sp, t)
  /\ \A t \in S : \A u \in sp[t] : sp[u] \subseteq sp[t]
  /\ \A t, u \in S : u \notin sp[t] /\ t \notin sp[u] => sp[t] \cap sp[u] = {}
  /\ \A t \in S : \A u \in sp[t] :
       u # t => B[u] \in Fields \X sp[t] /\ P[B[u]] = u

Tree(P, B, D, q, S) == \E sp : Spans(P, B, D, q, S, sp)

LEMMA NoneIsNoTask == None \notin Tasks /\ Root \notin Tasks /\ None # Root
BY TaskQueueAssumption

LEMMA EmptyTree ==
  ASSUME NEW P, NEW B, NEW D
  PROVE  Tree(P, B, D, None, {})
<1> DEFINE sp == [t \in {None} |-> {}]
<1>1. Spans(P, B, D, None, {}, sp)
  BY DEF Spans
<1> QED BY <1>1 DEF Tree

LEMMA TreeRoot ==
  ASSUME NEW P, NEW B, NEW D, NEW q, NEW S, Tree(P, B, D, q, S)
  PROVE  /\ S \subseteq Tasks
         /\ q = None <=> S = {}
         /\ q # None => q \in S
BY NoneIsNoTask DEF Tree, Spans

\* An element is in its own subtree, and the root is in no other one.
LEMMA SpanFacts ==
  ASSUME NEW P, NEW B, NEW D, NEW q, NEW S, NEW sp, Spans(P, B, D, q, S, sp),
         NEW t \in S
  PROVE  /\ t \in sp[t] /\ sp[t] \subseteq S /\ t \in Tasks /\ t # None /\ q # None
         /\ q \in sp[t] => t = q
<1>1. Node(P, B, D, S, sp, t) /\ t \in Tasks
  BY DEF Spans
<1>2. t \in sp[t] /\ sp[t] \subseteq S /\ t # None
  BY <1>1, NoneIsNoTask DEF Spans, Node
<1>3. q \in S /\ sp[q] = S /\ q # None
  BY NoneIsNoTask DEF Spans
<1>4. ASSUME q \in sp[t], t # q PROVE FALSE
  <2> DEFINE c == P[<<"children", q>>]
             n == P[<<"next", q>>]
  <2>1. /\ sp[q] = {q} \cup (sp[c] \cup sp[n]) /\ q \notin sp[c] /\ q \notin sp[n]
        /\ c \in S \cup {None} /\ n \in S \cup {None}
    BY <1>3 DEF Spans, Node
  <2> HIDE DEF c, n
  <2>2. t \in sp[c] \/ t \in sp[n]
    BY <2>1, <1>3, <1>4
  <2>3. (c \in S /\ t \in sp[c]) \/ (n \in S /\ t \in sp[n])
    BY <2>1, <2>2 DEF Spans
  <2>4. sp[t] \subseteq sp[c] \/ sp[t] \subseteq sp[n]
    BY <2>3 DEF Spans
  <2> QED BY <2>1, <2>4, <1>4
<1> QED BY <1>1, <1>2, <1>3, <1>4

\* What is outside of a tree, and the pointer back from its root, do not matter.
LEMMA TreeFrame ==
  ASSUME NEW P, NEW B, NEW D, NEW q, NEW S, Tree(P, B, D, q, S),
         NEW P2, NEW B2, NEW D2,
         \A t \in S, f \in Fields : P2[<<f, t>>] = P[<<f, t>>],
         \A t \in S : t # q => B2[t] = B[t],
         \A t \in S : D2[t] = D[t]
  PROVE  Tree(P2, B2, D2, q, S)
<1>1. PICK sp : Spans(P, B, D, q, S, sp)
  BY DEF Tree
<1>2. ASSUME NEW t \in S PROVE Node(P2, B2, D2, S, sp, t)
  <2> DEFINE c == P[<<"children", t>>]
             n == P[<<"next", t>>]
  <2>1. Node(P, B, D, S, sp, t)
    BY <1>1 DEF Spans
  <2>2. /\ c \in S \cup {None} /\ n \in S \cup {None}
        /\ sp[t] = {t} \cup (sp[c] \cup sp[n])
        /\ t \notin sp[c] /\ t \notin sp[n] /\ sp[c] \cap sp[n] = {}
        /\ c # None => B[c] = <<"children", t>>
        /\ n # None => B[n] = <<"next", t>>
        /\ \A u \in sp[c] : D[t] <= D[u]
    BY <2>1 DEF Node
  <2>3. P2[<<"children", t>>] = c /\ P2[<<"next", t>>] = n
    BY DEF Fields
  <2>4. c # q /\ n # q
    BY <2>2, <1>1 DEF Spans
  <2>5. \A u \in sp[c] : u \in S
    BY <2>2, <1>1 DEF Spans
  <2> HIDE DEF c, n
  <2>6. /\ c # None => B2[c] = <<"children", t>>
        /\ n # None => B2[n] = <<"next", t>>
        /\ \A u \in sp[c] : D2[t] <= D2[u]
    BY <2>2, <2>4, <2>5
  <2> QED BY <2>2, <2>3, <2>6 DEF Node
<1>3. ASSUME NEW t \in S, NEW u \in sp[t], u # t
      PROVE  B2[u] \in Fields \X sp[t] /\ P2[B2[u]] = u
  <2>1. B[u] \in Fields \X sp[t] /\ P[B[u]] = u /\ u \in S
    BY <1>1, <1>3 DEF Spans
  <2>2. u # q
    BY <1>1, <1>3, SpanFacts
  <2>3. PICK f \in Fields, o \in sp[t] : B[u] = <<f, o>>
    BY <2>1
  <2>4. o \in S
    BY <1>1, SpanFacts
  <2> QED BY <2>1, <2>2, <2>3, <2>4
<1>4. Spans(P2, B2, D2, q, S, sp)
  BY <1>1, <1>2, <1>3 DEF Spans
<1> QED BY <1>4 DEF Tree

\* What is below an element is a tree.
LEMMA SubTree ==
  ASSUME NEW P, NEW B, NEW D, NEW q, NEW S, NEW sp, Spans(P, B, D, q, S, sp),
         NEW r \in S \cup {None}
  PROVE  Tree(P, B, D, r, sp[r])
<1>1. CASE r = None
  BY <1>1, EmptyTree DEF Spans
<1>2. CASE r \in S
  <2> DEFINE R == sp[r]
             sr == [t \in R \cup {None} |-> sp[t]]
  <2>a. S \subseteq Tasks
    BY DEF Spans
  <2>b. r \in R /\ R \subseteq S
    BY <1>2, SpanFacts
  <2>1. R \subseteq S /\ r \in R /\ R \subseteq Tasks
    BY <2>a, <2>b
  <2>2. \A t \in R : sp[t] \subseteq R
    BY <1>2 DEF Spans
  <2>3. sp[None] = {}
    BY DEF Spans
  <2>4. /\ sr \in [R \cup {None} -> SUBSET R]
        /\ \A t \in R \cup {None} : sr[t] = sp[t]
    BY <2>2, <2>3
  <2> HIDE DEF sr
  <2>5. ASSUME NEW t \in R PROVE Node(P, B, D, R, sr, t)
    <3> DEFINE d == P[<<"children", t>>]
               m == P[<<"next", t>>]
    <3>1. t \in S
      BY <2>1
    <3>2. Node(P, B, D, S, sp, t)
      BY <3>1 DEF Spans
    <3>3. /\ d \in S \cup {None} /\ m \in S \cup {None}
          /\ sp[t] = {t} \cup (sp[d] \cup sp[m])
      BY <3>2 DEF Node
    <3>4. /\ d # None => d \in sp[d]
          /\ m # None => m \in sp[m]
      BY <3>3, SpanFacts
    <3>5. d \in R \cup {None} /\ m \in R \cup {None}
      <4> HIDE DEF d, m
      <4> QED BY <3>3, <3>4, <2>2
    <3>6. sr[t] = sp[t] /\ sr[d] = sp[d] /\ sr[m] = sp[m]
      BY <3>5, <2>4
    <3> QED BY <3>2, <3>5, <3>6 DEF Node
  <2>6. \A t \in R : \A u \in sr[t] : sr[u] \subseteq sr[t]
    BY <2>1, <2>2, <2>4 DEF Spans
  <2>7. \A t, u \in R : u \notin sr[t] /\ t \notin sr[u] => sr[t] \cap sr[u] = {}
    BY <2>1, <2>4 DEF Spans
  <2>8. \A t \in R : \A u \in sr[t] : u # t => B[u] \in Fields \X sr[t] /\ P[B[u]] = u
    BY <2>1, <2>4 DEF Spans
  <2>9. Spans(P, B, D, r, R, sr)
    BY <2>1, <2>3, <2>4, <2>5, <2>6, <2>7, <2>8 DEF Spans
  <2> QED BY <2>9 DEF Tree
<1> QED BY <1>1, <1>2

\* The root q and the trees below it, c with the elements A and n with E.
Parts(P, B, D, q, S, c, A, n, E) ==
  /\ S = {q} \cup (A \cup E) /\ q \notin A /\ q \notin E /\ A \cap E = {}
  /\ Tree(P, B, D, c, A) /\ Tree(P, B, D, n, E)
  /\ c # None => B[c] = <<"children", q>>
  /\ n # None => B[n] = <<"next", q>>
  /\ \A u \in A : D[q] <= D[u]

\* A tree is its root and two trees.
LEMMA TreeParts ==
  ASSUME NEW P, NEW B, NEW D, NEW q, NEW S, Tree(P, B, D, q, S), q # None,
         NEW c, NEW n, c = P[<<"children", q>>], n = P[<<"next", q>>]
  PROVE  \E A, E : Parts(P, B, D, q, S, c, A, n, E)
<1>1. PICK sp : Spans(P, B, D, q, S, sp)
  BY DEF Tree
<1>2. q \in S /\ sp[q] = S
  BY <1>1 DEF Spans
<1>3. /\ c \in S \cup {None} /\ n \in S \cup {None}
      /\ sp[q] = {q} \cup (sp[c] \cup sp[n])
      /\ q \notin sp[c] /\ q \notin sp[n] /\ sp[c] \cap sp[n] = {}
      /\ c # None => B[c] = <<"children", q>>
      /\ n # None => B[n] = <<"next", q>>
      /\ \A u \in sp[c] : D[q] <= D[u]
  BY <1>1, <1>2 DEF Spans, Node
<1>4. Tree(P, B, D, c, sp[c]) /\ Tree(P, B, D, n, sp[n])
  BY <1>1, <1>3, SubTree
<1>5. Parts(P, B, D, q, S, c, sp[c], n, sp[n])
  BY <1>2, <1>3, <1>4 DEF Parts
<1> QED BY <1>5

LEMMA TreeJoin ==
  ASSUME NEW P, NEW B, NEW D, NEW q \in Tasks, NEW A, NEW E,
         NEW c, NEW n, c = P[<<"children", q>>], n = P[<<"next", q>>],
         q \notin A, q \notin E, A \cap E = {},
         Tree(P, B, D, c, A), Tree(P, B, D, n, E),
         c # None => B[c] = <<"children", q>>,
         n # None => B[n] = <<"next", q>>,
         \A u \in A : D[q] <= D[u]
  PROVE  Tree(P, B, D, q, {q} \cup (A \cup E))
<1>1. PICK sa : Spans(P, B, D, c, A, sa)
  BY DEF Tree
<1>2. PICK se : Spans(P, B, D, n, E, se)
  BY DEF Tree
<1> DEFINE S == {q} \cup (A \cup E)
           sp == [t \in S \cup {None} |-> IF t = None THEN {} ELSE IF t = q THEN S
                                          ELSE IF t \in A THEN sa[t] ELSE se[t]]
<1>3. S \subseteq Tasks /\ None \notin S /\ q \in S
  BY <1>1, <1>2, NoneIsNoTask DEF Spans
<1>4. /\ \A t \in A : sa[t] \subseteq A
      /\ \A t \in E : se[t] \subseteq E
  BY <1>1, <1>2 DEF Spans
<1>5. /\ sp \in [S \cup {None} -> SUBSET S]
      /\ sp[None] = {} /\ sp[q] = S
      /\ \A t \in A : sp[t] = sa[t]
      /\ \A t \in E : sp[t] = se[t]
  BY <1>3, <1>4
<1>6. /\ c \in A \cup {None} /\ sa[c] = A /\ sa[None] = {}
      /\ n \in E \cup {None} /\ se[n] = E /\ se[None] = {}
  BY <1>1, <1>2 DEF Spans
<1>7. sp[c] = A /\ sp[n] = E
  BY <1>5, <1>6
<1>s. \A t \in S : t = q \/ t \in A \/ t \in E
  OBVIOUS
<1>t. A \subseteq S /\ E \subseteq S
  OBVIOUS
<1> HIDE DEF sp, S
<1>8. Node(P, B, D, S, sp, q)
  <2>1. sp[q] = {q} \cup (sp[c] \cup sp[n])
    BY <1>5, <1>7 DEF S
  <2>2. c \in S \cup {None} /\ n \in S \cup {None}
    BY <1>6, <1>t
  <2> QED BY <2>1, <2>2, <1>7 DEF Node
<1>9. ASSUME NEW t \in A PROVE Node(P, B, D, S, sp, t)
  <2> DEFINE d == P[<<"children", t>>]
             m == P[<<"next", t>>]
  <2>1. Node(P, B, D, A, sa, t)
    BY <1>1 DEF Spans
  <2>2. d \in A \cup {None} /\ m \in A \cup {None}
    BY <2>1 DEF Node
  <2>3. sp[t] = sa[t] /\ sp[d] = sa[d] /\ sp[m] = sa[m]
    BY <1>5, <1>6, <2>2
  <2>4. d \in S \cup {None} /\ m \in S \cup {None}
    BY <2>2, <1>t
  <2> QED BY <2>1, <2>3, <2>4 DEF Node
<1>10. ASSUME NEW t \in E PROVE Node(P, B, D, S, sp, t)
  <2> DEFINE d == P[<<"children", t>>]
             m == P[<<"next", t>>]
  <2>1. Node(P, B, D, E, se, t)
    BY <1>2 DEF Spans
  <2>2. d \in E \cup {None} /\ m \in E \cup {None}
    BY <2>1 DEF Node
  <2>3. sp[t] = se[t] /\ sp[d] = se[d] /\ sp[m] = se[m]
    BY <1>5, <1>6, <2>2
  <2>4. d \in S \cup {None} /\ m \in S \cup {None}
    BY <2>2, <1>t
  <2> QED BY <2>1, <2>3, <2>4 DEF Node
<1>11. ASSUME NEW t \in S, NEW u \in sp[t] PROVE sp[u] \subseteq sp[t]
  <2>1. CASE t = q
    BY <2>1, <1>5
  <2>2. CASE t \in A
    <3>1. u \in A /\ sa[u] \subseteq sa[t]
      BY <2>2, <1>1, <1>4, <1>5 DEF Spans
    <3> QED BY <3>1, <2>2, <1>5
  <2>3. CASE t \in E
    <3>1. u \in E /\ se[u] \subseteq se[t]
      BY <2>3, <1>2, <1>4, <1>5 DEF Spans
    <3> QED BY <3>1, <2>3, <1>5
  <2> QED BY <2>1, <2>2, <2>3, <1>s
<1>12. ASSUME NEW t \in S, NEW u \in S, u \notin sp[t], t \notin sp[u]
       PROVE  sp[t] \cap sp[u] = {}
  <2>1. t # q /\ u # q
    BY <1>5, <1>12
  <2>2. CASE t \in A /\ u \in A
    BY <2>2, <1>1, <1>5, <1>12 DEF Spans
  <2>3. CASE t \in E /\ u \in E
    BY <2>3, <1>2, <1>5, <1>12 DEF Spans
  <2>4. CASE t \in A /\ u \in E
    BY <2>4, <1>4, <1>5
  <2>5. CASE t \in E /\ u \in A
    BY <2>5, <1>4, <1>5
  <2> QED BY <2>1, <2>2, <2>3, <2>4, <2>5, <1>s
<1>13. ASSUME NEW t \in S, NEW u \in sp[t], u # t
       PROVE  B[u] \in Fields \X sp[t] /\ P[B[u]] = u
  <2>1. CASE t \in A
    BY <2>1, <1>1, <1>5, <1>13 DEF Spans
  <2>2. CASE t \in E
    BY <2>2, <1>2, <1>5, <1>13 DEF Spans
  <2>3. CASE t = q
    <3>1. sp[t] = S /\ (u \in A \/ u \in E) /\ q \in S
      BY <2>3, <1>3, <1>5, <1>13, <1>s
    <3>2. CASE u = c
      <4>1. c # None
        BY <3>1, <3>2, <1>3, <1>t
      <4> QED BY <3>1, <3>2, <4>1 DEF Fields
    <3>3. CASE u = n
      <4>1. n # None
        BY <3>1, <3>3, <1>3, <1>t
      <4> QED BY <3>1, <3>3, <4>1 DEF Fields
    <3>4. CASE u \in A /\ u # c
      <4>1. c \in A
        BY <3>4, <1>6
      <4>2. u \in sa[c]
        BY <3>4, <1>6
      <4>3. B[u] \in Fields \X A /\ P[B[u]] = u
        BY <3>4, <4>1, <4>2, <1>1, <1>6 DEF Spans
      <4> QED BY <4>3, <3>1, <1>t
    <3>5. CASE u \in E /\ u # n
      <4>1. n \in E
        BY <3>5, <1>6
      <4>2. u \in se[n]
        BY <3>5, <1>6
      <4>3. B[u] \in Fields \X E /\ P[B[u]] = u
        BY <3>5, <4>1, <4>2, <1>2, <1>6 DEF Spans
      <4> QED BY <4>3, <3>1, <1>t
    <3> QED BY <3>1, <3>2, <3>3, <3>4, <3>5
  <2> QED BY <2>1, <2>2, <2>3, <1>s
<1>14. \A t \in S : Node(P, B, D, S, sp, t)
  BY <1>8, <1>9, <1>10, <1>s
<1>15. Spans(P, B, D, q, S, sp)
  BY <1>3, <1>5, <1>11, <1>12, <1>13, <1>14 DEF Spans
<1> QED BY <1>15 DEF Tree, S

\* A tree in which what is below e, an element that is not the root, has been
\* replaced by a tree of the same elements without e.
LEMMA TreeWithout ==
  ASSUME NEW P, NEW B, NEW D, NEW q, NEW S, NEW sp, Spans(P, B, D, q, S, sp),
         NEW e \in S, e # q,
         NEW P2, NEW B2, NEW D2, NEW r,
         Tree(P2, B2, D2, r, sp[e] \ {e}),
         P2[B[e]] = r, r # None => B2[r] = B[e],
         \A t \in S \ sp[e], f \in Fields : <<f, t>> # B[e] => P2[<<f, t>>] = P[<<f, t>>],
         \A t \in S \ sp[e] : B2[t] = B[t],
         \A t \in S \ {e} : D2[t] = D[t]
  PROVE  Tree(P2, B2, D2, q, S \ {e})
<1> DEFINE M == sp[e]
           N == sp[e] \ {e}
           O == S \ sp[e]
<1>1. PICK sn : Spans(P2, B2, D2, r, N, sn)
  BY DEF Tree
<1>2. e \in M /\ M \subseteq S /\ None \notin S /\ q \in O /\ sp[q] = S /\ S \subseteq Tasks
  <2>1. sp[q] = S /\ q \in S /\ None \notin S /\ S \subseteq Tasks
    BY NoneIsNoTask DEF Spans
  <2> QED BY <2>1, SpanFacts
<1>3. /\ sp[None] = {}
      /\ \A t \in S : Node(P, B, D, S, sp, t)
      /\ \A t \in S : \A u \in sp[t] : sp[u] \subseteq sp[t]
      /\ \A t, u \in S : u \notin sp[t] /\ t \notin sp[u] => sp[t] \cap sp[u] = {}
      /\ \A t \in S : \A u \in sp[t] : u # t => B[u] \in Fields \X sp[t] /\ P[B[u]] = u
      /\ \A t \in S : sp[t] \subseteq S
  BY DEF Spans
<1>4. /\ sn[None] = {} /\ r \in N \cup {None} /\ sn[r] = N
      /\ \A t \in N : Node(P2, B2, D2, N, sn, t)
      /\ \A t \in N : \A u \in sn[t] : sn[u] \subseteq sn[t]
      /\ \A t, u \in N : u \notin sn[t] /\ t \notin sn[u] => sn[t] \cap sn[u] = {}
      /\ \A t \in N : \A u \in sn[t] : u # t => B2[u] \in Fields \X sn[t] /\ P2[B2[u]] = u
      /\ \A t \in N : sn[t] \subseteq N
  BY <1>1 DEF Spans
\* An element points to elements of its subtree.
<1>5. ASSUME NEW t \in S, NEW f \in Fields, P[<<f, t>>] # None
      PROVE  /\ P[<<f, t>>] \in S /\ B[P[<<f, t>>]] = <<f, t>>
             /\ sp[P[<<f, t>>]] \subseteq sp[t] /\ t \notin sp[P[<<f, t>>]]
             /\ P[<<f, t>>] \in sp[P[<<f, t>>]]
  <2>1. Node(P, B, D, S, sp, t)
    BY <1>3
  <2>2. /\ P[<<f, t>>] \in S /\ B[P[<<f, t>>]] = <<f, t>>
        /\ sp[P[<<f, t>>]] \subseteq sp[t] /\ t \notin sp[P[<<f, t>>]]
    BY <2>1, <1>5 DEF Node, Fields
  <2>3. P[<<f, t>>] \in sp[P[<<f, t>>]]
    BY <2>2, SpanFacts
  <2> QED BY <2>2, <2>3
<1>6. PICK g \in Fields, o \in S : B[e] = <<g, o>>
  BY <1>2, <1>3
<1>7. P[<<g, o>>] = e /\ o \notin M /\ e # None /\ o \in O
  <2>1. P[<<g, o>>] = e /\ e # None
    BY <1>2, <1>3, <1>6
  <2> QED BY <2>1, <1>5
\* What is outside of the subtree of e either has all of it below or nothing.
<1>8. ASSUME NEW t \in O
      PROVE  \/ e \in sp[t] /\ M \subseteq sp[t]
             \/ e \notin sp[t] /\ M \cap sp[t] = {}
  BY <1>3
<1> DEFINE sq == [t \in (S \ {e}) \cup {None} |->
                    IF t = None THEN {} ELSE IF t \in M THEN sn[t] ELSE sp[t] \ {e}]
<1>9. /\ \A t \in N : sq[t] = sn[t]
      /\ \A t \in O : sq[t] = sp[t] \ {e}
      /\ sq[None] = {}
      /\ sq \in [(S \ {e}) \cup {None} -> SUBSET (S \ {e})]
  <2>1. /\ \A t \in N : sq[t] = sn[t]
        /\ \A t \in O : sq[t] = sp[t] \ {e}
        /\ sq[None] = {}
    BY <1>2
  <2>2. \A t \in (S \ {e}) \cup {None} : sq[t] \subseteq S \ {e}
    <3> SUFFICES ASSUME NEW t \in (S \ {e}) \cup {None} PROVE sq[t] \subseteq S \ {e}
      OBVIOUS
    <3>1. CASE t = None
      BY <3>1, <2>1
    <3>2. CASE t \in N
      <4>1. sn[t] \subseteq N /\ N \subseteq S \ {e}
        BY <3>2, <1>2, <1>4
      <4> QED BY <3>2, <4>1, <2>1
    <3>3. CASE t \in O
      <4>1. sp[t] \subseteq S
        BY <3>3, <1>3
      <4> QED BY <3>3, <4>1, <2>1
    <3> QED BY <3>1, <3>2, <3>3
  <2> QED BY <2>1, <2>2
<1>10. \A t \in S \ {e} : t \in N \/ t \in O
  OBVIOUS
<1>11. N \subseteq S \ {e} /\ O \subseteq S \ {e} /\ e \notin N /\ N \cap O = {}
  BY <1>2
<1> HIDE DEF sq
<1>12. ASSUME NEW t \in O, NEW f \in Fields
       PROVE  /\ P2[<<f, t>>] \in (S \ {e}) \cup {None}
              /\ sq[P2[<<f, t>>]] = sp[P[<<f, t>>]] \ {e}
              /\ P2[<<f, t>>] # None => B2[P2[<<f, t>>]] = <<f, t>>
  <2>1. CASE <<f, t>> = B[e]
    <3>1. P[<<f, t>>] = e /\ P2[<<f, t>>] = r
      BY <2>1, <1>6, <1>7
    <3>2. sq[r] = N
      BY <1>4, <1>9
    <3> QED BY <2>1, <3>1, <3>2, <1>4, <1>11
  <2>2. CASE <<f, t>> # B[e]
    <3> DEFINE x == P[<<f, t>>]
    <3>1. P2[<<f, t>>] = x
      BY <2>2
    <3>2. CASE x = None
      BY <3>1, <3>2, <1>3, <1>9
    <3>3. CASE x # None
      <4>1. x \in S /\ B[x] = <<f, t>>
        BY <3>3, <1>5
      <4>2. x \notin M
        <5> SUFFICES ASSUME x \in M PROVE FALSE
          OBVIOUS
        <5>1. x # e
          BY <4>1, <2>2
        <5>2. B[x] \in Fields \X M
          BY <5>1, <1>3
        <5> QED BY <4>1, <5>2
      <4>3. x \in O /\ B2[x] = B[x]
        BY <4>1, <4>2
      <4>4. sq[x] = sp[x] \ {e} /\ x \in (S \ {e}) \cup {None}
        BY <4>3, <1>9, <1>11
      <4> QED BY <3>1, <4>1, <4>3, <4>4
    <3> QED BY <3>2, <3>3
  <2> QED BY <2>1, <2>2
<1>13. ASSUME NEW t \in O PROVE Node(P2, B2, D2, S \ {e}, sq, t)
  <2> DEFINE c == P[<<"children", t>>]
             n == P[<<"next", t>>]
             c2 == P2[<<"children", t>>]
             n2 == P2[<<"next", t>>]
  <2>1. /\ sp[t] = {t} \cup (sp[c] \cup sp[n])
        /\ t \notin sp[c] /\ t \notin sp[n] /\ sp[c] \cap sp[n] = {}
        /\ \A u \in sp[c] : D[t] <= D[u]
        /\ c \in S \cup {None}
    BY <1>3 DEF Node
  <2>2. /\ c2 \in (S \ {e}) \cup {None} /\ n2 \in (S \ {e}) \cup {None}
        /\ sq[c2] = sp[c] \ {e} /\ sq[n2] = sp[n] \ {e}
        /\ c2 # None => B2[c2] = <<"children", t>>
        /\ n2 # None => B2[n2] = <<"next", t>>
    BY <1>12 DEF Fields
  <2>3. sq[t] = sp[t] \ {e} /\ t # e
    BY <1>9, <1>11
  <2>4. sp[c] \subseteq S
    BY <2>1, <1>3
  <2> HIDE DEF c, n
  <2>5. \A u \in sp[c] \ {e} : D2[t] <= D2[u]
    BY <2>1, <2>3, <2>4
  <2>6. /\ sq[t] = {t} \cup (sq[c2] \cup sq[n2])
        /\ t \notin sq[c2] /\ t \notin sq[n2] /\ sq[c2] \cap sq[n2] = {}
        /\ \A u \in sq[c2] : D2[t] <= D2[u]
    <3> HIDE DEF c2, n2
    <3> QED BY <2>1, <2>2, <2>3, <2>5
  <2> QED BY <2>2, <2>6 DEF Node
<1>14. ASSUME NEW t \in N PROVE Node(P2, B2, D2, S \ {e}, sq, t)
  <2> DEFINE d == P2[<<"children", t>>]
             m == P2[<<"next", t>>]
  <2>1. Node(P2, B2, D2, N, sn, t)
    BY <1>4
  <2>2. d \in N \cup {None} /\ m \in N \cup {None}
    BY <2>1 DEF Node
  <2>3. sq[t] = sn[t] /\ sq[d] = sn[d] /\ sq[m] = sn[m]
    BY <2>2, <1>4, <1>9
  <2>4. d \in (S \ {e}) \cup {None} /\ m \in (S \ {e}) \cup {None}
    BY <2>2, <1>11
  <2> QED BY <2>1, <2>3, <2>4 DEF Node
<1>15. ASSUME NEW t \in S \ {e}, NEW u \in sq[t] PROVE sq[u] \subseteq sq[t]
  <2>1. CASE t \in N
    <3>1. u \in N /\ sn[u] \subseteq sn[t]
      BY <2>1, <1>4, <1>9
    <3> QED BY <2>1, <3>1, <1>9
  <2>2. CASE t \in O
    <3>1. u \in sp[t] /\ u \in S \ {e}
      BY <2>2, <1>3, <1>9
    <3>2. CASE u \in O
      BY <2>2, <3>1, <3>2, <1>3, <1>9
    <3>3. CASE u \in N
      <4>1. M \subseteq sp[t]
        BY <2>2, <3>1, <3>3, <1>8
      <4>2. sq[u] \subseteq N
        BY <3>3, <1>4, <1>9
      <4> QED BY <2>2, <4>1, <4>2, <1>9
    <3> QED BY <3>1, <3>2, <3>3, <1>10
  <2> QED BY <2>1, <2>2, <1>10
<1>16. ASSUME NEW t \in S \ {e}, NEW u \in S \ {e}, u \notin sq[t], t \notin sq[u]
       PROVE  sq[t] \cap sq[u] = {}
  <2>1. ASSUME NEW v \in O, NEW w \in N, w \notin sq[v] PROVE sq[v] \cap sq[w] = {}
    <3>1. w \notin sp[v]
      BY <2>1, <1>9, <1>11
    <3>2. M \cap sp[v] = {}
      BY <3>1, <1>8
    <3>3. sq[w] \subseteq N /\ sq[v] = sp[v] \ {e}
      BY <1>4, <1>9
    <3> QED BY <3>2, <3>3
  <2>2. CASE t \in N /\ u \in N
    BY <2>2, <1>4, <1>9, <1>16
  <2>3. CASE t \in O /\ u \in O
    BY <2>3, <1>3, <1>9, <1>16
  <2>4. CASE t \in O /\ u \in N
    BY <2>1, <2>4, <1>16
  <2>5. CASE t \in N /\ u \in O
    BY <2>1, <2>5, <1>16
  <2> QED BY <2>2, <2>3, <2>4, <2>5, <1>10
<1>17. ASSUME NEW t \in S \ {e}, NEW u \in sq[t], u # t
       PROVE  B2[u] \in Fields \X sq[t] /\ P2[B2[u]] = u
  <2>1. CASE t \in N
    BY <2>1, <1>4, <1>9, <1>17
  <2>2. CASE t \in O
    <3>1. u \in sp[t] /\ u \in S \ {e} /\ sq[t] = sp[t] \ {e}
      BY <2>2, <1>3, <1>9
    <3>2. CASE u \in O
      <4>1. B[u] \in Fields \X sp[t] /\ P[B[u]] = u /\ B2[u] = B[u]
        BY <2>2, <3>1, <3>2, <1>3, <1>17
      <4>2. PICK f \in Fields, v \in sp[t] : B[u] = <<f, v>>
        BY <4>1
      <4>3. v \in S
        BY <2>2, <1>3
      <4>4. v \notin M
        <5> SUFFICES ASSUME v \in M PROVE FALSE
          OBVIOUS
        <5>1. u \in sp[v]
          BY <4>1, <4>2, <4>3, <3>1, <1>2, <1>5
        <5> QED BY <5>1, <3>2, <1>3
      <4>5. v # e /\ v \in O
        BY <4>3, <4>4, <1>2
      <4>6. <<f, v>> # B[e]
        BY <4>1, <4>2, <3>1, <1>6, <1>7
      <4>7. P2[<<f, v>>] = u
        BY <4>1, <4>2, <4>5, <4>6
      <4> QED BY <4>1, <4>2, <4>5, <4>7, <3>1
    <3>3. CASE u \in N
      <4>1. M \subseteq sp[t] /\ e \in sp[t]
        BY <2>2, <3>1, <3>3, <1>8
      <4>2. CASE u = r
        <5>1. B2[u] = B[e] /\ P2[B[e]] = u
          BY <4>2, <3>1, <1>2
        <5>2. B[e] \in Fields \X sp[t]
          BY <4>1, <2>2, <1>3, <1>11
        <5>3. o \in sp[t] \ {e}
          BY <5>2, <1>2, <1>6, <1>7
        <5> QED BY <5>1, <5>3, <3>1, <1>6
      <4>3. CASE u # r
        <5>1. r \in N /\ u \in sn[r]
          BY <3>3, <1>4
        <5>2. B2[u] \in Fields \X N /\ P2[B2[u]] = u
          BY <5>1, <4>3, <1>4
        <5>3. N \subseteq sq[t]
          BY <4>1, <3>1
        <5> QED BY <5>2, <5>3
      <4> QED BY <4>2, <4>3
    <3> QED BY <3>1, <3>2, <3>3, <1>10
  <2> QED BY <2>1, <2>2, <1>10
<1>18. q \in S \ {e} /\ sq[q] = S \ {e}
  BY <1>2, <1>9
<1>19. \A t \in S \ {e} : Node(P2, B2, D2, S \ {e}, sq, t)
  BY <1>10, <1>13, <1>14
<1>20. S \ {e} \subseteq Tasks
  BY <1>2
<1>21. Spans(P2, B2, D2, q, S \ {e}, sq)
  BY <1>9, <1>15, <1>16, <1>17, <1>18, <1>19, <1>20 DEF Spans
<1> QED BY <1>21 DEF Tree

-----------------------------------------------------------------------------
(* The operations on pointers.                                             *)

HeapTree(h, q, S) == Tree(h.ptr, h.pprev, h.due, q, S)

\* From h to g nothing has changed but pointers of the elements of S.
Within(h, g, S) ==
  /\ \A f \in Fields, x \in Elements \ S : g.ptr[<<f, x>>] = h.ptr[<<f, x>>]
  /\ \A t \in Tasks \ S : g.pprev[t] = h.pprev[t]
  /\ g.due = h.due /\ g.bug = h.bug

LEMMA HeapType ==
  ASSUME NEW h \in Heaps
  PROVE  /\ h.ptr \in [Places -> Tasks \cup {None}]
         /\ h.pprev \in [Tasks -> Places \cup {NoPlace}]
         /\ h.due \in [Tasks -> 0..MaxTime]
         /\ h.bug \in BOOLEAN
         /\ h = [ptr |-> h.ptr, pprev |-> h.pprev, due |-> h.due, bug |-> h.bug]
BY DEF Heaps

LEMMA IsHeap ==
  ASSUME NEW P \in [Places -> Tasks \cup {None}], NEW B \in [Tasks -> Places \cup {NoPlace}],
         NEW D \in [Tasks -> 0..MaxTime], NEW b \in BOOLEAN
  PROVE  [ptr |-> P, pprev |-> B, due |-> D, bug |-> b] \in Heaps
BY DEF Heaps

LEMMA IsPlace ==
  /\ \A f \in Fields, x \in Elements : <<f, x>> \in Places
  /\ \A p \in Places : p # NoPlace /\ \E f \in Fields, x \in Elements : p = <<f, x>>
  /\ \A x : <<"children", x>> # NoPlace /\ <<"next", x>> # NoPlace
  /\ \A x, y : <<"children", x>> # <<"next", y>>
  /\ "children" \in Fields /\ "next" \in Fields
  /\ Root \in Elements /\ Tasks \subseteq Elements
BY DEF Places, Fields, NoPlace, Elements

\* A check that succeeds does nothing.
LEMMA CheckHolds ==
  ASSUME NEW h \in Heaps, NEW ok, ok = TRUE
  PROVE  Check(h, ok) = h
<1>1. Check(h, ok) = [h EXCEPT !.bug = h.bug \/ ~ok]
  BY DEF Check
<1>2. (h.bug \/ ~ok) = h.bug
  BY HeapType
<1>3. [h EXCEPT !.bug = h.bug] = h
  BY DEF Heaps
<1> QED BY <1>1, <1>2, <1>3

\* g is h with e inserted before s at place.
IsLink(h, place, e, s, g) ==
  /\ g \in Heaps
  /\ g.ptr[<<"next", e>>] = s /\ g.ptr[place] = e
  /\ \A p \in Places : p # place /\ p # <<"next", e>> => g.ptr[p] = h.ptr[p]
  /\ s # e => g.pprev[e] = place
  /\ s # None => g.pprev[s] = <<"next", e>>
  /\ \A t \in Tasks : t # e /\ t # s => g.pprev[t] = h.pprev[t]
  /\ g.due = h.due
  /\ NextOf(h, e) = None => g.bug = h.bug

LEMMA LinkFields ==
  ASSUME NEW h \in Heaps, NEW place \in Places, NEW e \in Tasks, place # <<"next", e>>,
         NEW g, NEW s, g = Link(h, place, e), s = h.ptr[place]
  PROVE  IsLink(h, place, e, s, g)
<1> DEFINE B == [h.pprev EXCEPT ![e] = place]
           C == IF s = None THEN B ELSE [B EXCEPT ![s] = <<"next", e>>]
           P == [h.ptr EXCEPT ![<<"next", e>>] = s, ![place] = e]
           b == h.bug \/ NextOf(h, e) # None
<1>1. g = [ptr |-> P, pprev |-> C, due |-> h.due, bug |-> b]
  BY DEF Link
<1>2. <<"next", e>> \in Places /\ s \in Tasks \cup {None}
  BY IsPlace, HeapType
<1>3. P \in [Places -> Tasks \cup {None}]
  BY <1>2, HeapType
<1>4. P[<<"next", e>>] = s /\ P[place] = e
  BY <1>2, HeapType
<1>5. \A p \in Places : p # place /\ p # <<"next", e>> => P[p] = h.ptr[p]
  BY <1>2, HeapType
<1>6. B \in [Tasks -> Places \cup {NoPlace}] /\ B[e] = place
  BY HeapType
<1>7. \A t \in Tasks : t # e => B[t] = h.pprev[t]
  BY HeapType
<1> HIDE DEF B
<1>8. C \in [Tasks -> Places \cup {NoPlace}]
  BY <1>2, <1>6
<1>9. /\ s # e => C[e] = place
      /\ s # None => C[s] = <<"next", e>>
      /\ \A t \in Tasks : t # e /\ t # s => C[t] = h.pprev[t]
  BY <1>2, <1>6, <1>7
<1>10. b \in BOOLEAN /\ (NextOf(h, e) = None => b = h.bug)
  BY HeapType
<1> HIDE DEF P, C, b
<1>11. g \in Heaps
  BY <1>1, <1>3, <1>8, <1>10, IsHeap, HeapType
<1>12. g.ptr = P /\ g.pprev = C /\ g.due = h.due /\ g.bug = b
  BY <1>1
<1> QED BY <1>4, <1>5, <1>9, <1>10, <1>11, <1>12 DEF IsLink

\* g is h with e taken out at place, where s is now.
IsUnlink(h, place, e, s, g) ==
  /\ g \in Heaps
  /\ g.ptr[<<"next", e>>] = None /\ g.ptr[place] = s
  /\ \A p \in Places : p # place /\ p # <<"next", e>> => g.ptr[p] = h.ptr[p]
  /\ s # None => g.pprev[s] = place
  /\ \A t \in Tasks : t # s => g.pprev[t] = h.pprev[t]
  /\ g.due = h.due /\ g.bug = h.bug

LEMMA UnlinkFields ==
  ASSUME NEW h \in Heaps, NEW e \in Tasks, NEW place \in Places, place # <<"next", e>>,
         NEW g, NEW s, g = Unlink(h, e), s = NextOf(h, e), place = h.pprev[e]
  PROVE  IsUnlink(h, place, e, s, g)
<1> DEFINE C == IF s = None THEN h.pprev ELSE [h.pprev EXCEPT ![s] = place]
           P == [h.ptr EXCEPT ![place] = s, ![<<"next", e>>] = None]
<1>1. g = [ptr |-> P, pprev |-> C, due |-> h.due, bug |-> h.bug]
  BY DEF Unlink
<1>2. <<"next", e>> \in Places /\ s \in Tasks \cup {None}
  BY IsPlace, HeapType DEF NextOf
<1>3. P \in [Places -> Tasks \cup {None}]
  BY <1>2, HeapType
<1>4. P[<<"next", e>>] = None /\ P[place] = s
  BY <1>2, HeapType
<1>5. \A p \in Places : p # place /\ p # <<"next", e>> => P[p] = h.ptr[p]
  BY <1>2, HeapType
<1>6. C \in [Tasks -> Places \cup {NoPlace}]
  BY <1>2, HeapType
<1>7. /\ s # None => C[s] = place
      /\ \A t \in Tasks : t # s => C[t] = h.pprev[t]
  BY <1>2, HeapType
<1> HIDE DEF P, C
<1>8. g \in Heaps
  BY <1>1, <1>3, <1>6, IsHeap, HeapType
<1>9. g.ptr = P /\ g.pprev = C /\ g.due = h.due /\ g.bug = h.bug
  BY <1>1
<1> QED BY <1>4, <1>5, <1>7, <1>8, <1>9 DEF IsUnlink

\* What happens elsewhere does not affect a tree.
LEMMA TreeWithin ==
  ASSUME NEW h \in Heaps, NEW g \in Heaps, NEW q, NEW S, HeapTree(h, q, S),
         NEW T, S \cap T = {}, Within(h, g, T)
  PROVE  HeapTree(g, q, S)
<1>1. S \subseteq Tasks
  BY TreeRoot DEF HeapTree
<1>2. \A t \in S, f \in Fields : g.ptr[<<f, t>>] = h.ptr[<<f, t>>]
  BY <1>1 DEF Within, Elements
<1>3. \A t \in S : g.pprev[t] = h.pprev[t]
  BY <1>1 DEF Within
<1>4. \A t \in S : g.due[t] = h.due[t]
  BY DEF Within
<1> QED BY <1>2, <1>3, <1>4, TreeFrame DEF HeapTree

LEMMA HeapParts ==
  ASSUME NEW h, NEW q, NEW S, HeapTree(h, q, S), q # None
  PROVE  \E A, E :
           /\ S = {q} \cup (A \cup E) /\ q \notin A /\ q \notin E /\ A \cap E = {}
           /\ HeapTree(h, Children(h, q), A) /\ HeapTree(h, NextOf(h, q), E)
           /\ Children(h, q) # None => h.pprev[Children(h, q)] = <<"children", q>>
           /\ NextOf(h, q) # None => h.pprev[NextOf(h, q)] = <<"next", q>>
           /\ \A u \in A : h.due[q] <= h.due[u]
<1> DEFINE P == h.ptr
           B == h.pprev
           D == h.due
           c == Children(h, q)
           n == NextOf(h, q)
<1>1. Tree(P, B, D, q, S)
  BY DEF HeapTree
<1>2. c = P[<<"children", q>>] /\ n = P[<<"next", q>>]
  BY DEF Children, NextOf
<1>3. PICK A, E : Parts(P, B, D, q, S, c, A, n, E)
  <2> HIDE DEF P, B, D, c, n
  <2> QED BY <1>1, <1>2, TreeParts
<1>4. HeapTree(h, c, A) /\ HeapTree(h, n, E)
  BY <1>3 DEF HeapTree, Parts
<1>5. /\ S = {q} \cup (A \cup E) /\ q \notin A /\ q \notin E /\ A \cap E = {}
      /\ HeapTree(h, Children(h, q), A) /\ HeapTree(h, NextOf(h, q), E)
      /\ Children(h, q) # None => h.pprev[Children(h, q)] = <<"children", q>>
      /\ NextOf(h, q) # None => h.pprev[NextOf(h, q)] = <<"next", q>>
      /\ \A u \in A : h.due[q] <= h.due[u]
  BY <1>3, <1>4 DEF Parts
<1> QED BY <1>5

\* A tree without next is its root and what is below.
LEMMA TreeAlone ==
  ASSUME NEW h \in Heaps, NEW q, NEW S, HeapTree(h, q, S), q # None, NextOf(h, q) = None
  PROVE  /\ q \in S /\ q \in Tasks
         /\ HeapTree(h, Children(h, q), S \ {q})
         /\ Children(h, q) # None => h.pprev[Children(h, q)] = <<"children", q>>
         /\ \A u \in S \ {q} : h.due[q] <= h.due[u]
<1>1. PICK A, E :
        /\ S = {q} \cup (A \cup E) /\ q \notin A /\ q \notin E
        /\ HeapTree(h, Children(h, q), A) /\ HeapTree(h, NextOf(h, q), E)
        /\ Children(h, q) # None => h.pprev[Children(h, q)] = <<"children", q>>
        /\ \A u \in A : h.due[q] <= h.due[u]
  BY HeapParts
<1>2. E = {}
  BY <1>1, TreeRoot DEF HeapTree
<1>3. A = S \ {q}
  BY <1>1, <1>2
<1>4. q \in S /\ S \subseteq Tasks
  BY TreeRoot DEF HeapTree
<1> QED BY <1>1, <1>3, <1>4

LEMMA HeapJoin ==
  ASSUME NEW h \in Heaps, NEW q \in Tasks, NEW A, NEW E,
         q \notin A, q \notin E, A \cap E = {},
         HeapTree(h, Children(h, q), A), HeapTree(h, NextOf(h, q), E),
         Children(h, q) # None => h.pprev[Children(h, q)] = <<"children", q>>,
         NextOf(h, q) # None => h.pprev[NextOf(h, q)] = <<"next", q>>,
         \A u \in A : h.due[q] <= h.due[u]
  PROVE  HeapTree(h, q, {q} \cup (A \cup E))
BY TreeJoin DEF HeapTree, Children, NextOf

\* One queue becomes the first child of another one.
LEMMA LinkTrees ==
  ASSUME NEW h \in Heaps, NEW lo \in Tasks, NEW hi \in Tasks, NEW L, NEW H,
         HeapTree(h, lo, L), HeapTree(h, hi, H), L \cap H = {},
         NextOf(h, lo) = None, NextOf(h, hi) = None,
         h.due[lo] <= h.due[hi],
         NEW g, g = Link(h, <<"children", lo>>, hi)
  PROVE  /\ g \in Heaps
         /\ HeapTree(g, lo, L \cup H)
         /\ NextOf(g, lo) = None
         /\ Within(h, g, L \cup H)
<1> DEFINE s == Children(h, lo)
           d == Children(h, hi)
           A == L \ {lo}
           C == H \ {hi}
<1>n. lo # None /\ hi # None
  BY NoneIsNoTask
<1>1. /\ lo \in L /\ HeapTree(h, s, A)
      /\ s # None => h.pprev[s] = <<"children", lo>>
      /\ \A u \in A : h.due[lo] <= h.due[u]
  BY TreeAlone, <1>n
<1>2. /\ hi \in H /\ HeapTree(h, d, C)
      /\ d # None => h.pprev[d] = <<"children", hi>>
      /\ \A u \in C : h.due[hi] <= h.due[u]
  BY TreeAlone, <1>n
<1>3. /\ L \subseteq Tasks /\ H \subseteq Tasks
      /\ s # None => s \in A
      /\ d # None => d \in C
  BY <1>1, <1>2, TreeRoot DEF HeapTree
<1>4. <<"children", lo>> \in Places /\ <<"children", lo>> # <<"next", hi>>
  BY IsPlace
<1>5. s # hi /\ s # lo /\ lo # hi /\ (d # None => d # s /\ d # hi /\ d # lo)
  BY <1>1, <1>2, <1>3, <1>n
<1>6. /\ g \in Heaps
      /\ g.ptr[<<"next", hi>>] = s /\ g.ptr[<<"children", lo>>] = hi
      /\ \A p \in Places : p # <<"children", lo>> /\ p # <<"next", hi>> => g.ptr[p] = h.ptr[p]
      /\ g.pprev[hi] = <<"children", lo>>
      /\ s # None => g.pprev[s] = <<"next", hi>>
      /\ \A t \in Tasks : t # hi /\ t # s => g.pprev[t] = h.pprev[t]
      /\ g.due = h.due /\ g.bug = h.bug
  <2>1. s = h.ptr[<<"children", lo>>]
    BY DEF Children
  <2> HIDE DEF s
  <2>2. IsLink(h, <<"children", lo>>, hi, s, g)
    BY <2>1, <1>4, LinkFields
  <2> QED BY <2>2, <1>5 DEF IsLink
<1>7. HeapTree(g, s, A)
  <2>1. \A t \in A, f \in Fields : g.ptr[<<f, t>>] = h.ptr[<<f, t>>]
    <3> SUFFICES ASSUME NEW t \in A, NEW f \in Fields PROVE g.ptr[<<f, t>>] = h.ptr[<<f, t>>]
      OBVIOUS
    <3>1. t \in Tasks /\ t # lo /\ t # hi
      BY <1>2, <1>3
    <3>2. <<f, t>> \in Places
      BY <3>1, IsPlace
    <3> QED BY <3>1, <3>2, <1>6
  <2>2. \A t \in A : t # s => g.pprev[t] = h.pprev[t]
    BY <1>2, <1>3, <1>6
  <2> QED BY <2>1, <2>2, <1>1, <1>6, TreeFrame DEF HeapTree
<1>8. HeapTree(g, d, C)
  <2>1. \A t \in C, f \in Fields : g.ptr[<<f, t>>] = h.ptr[<<f, t>>]
    <3> SUFFICES ASSUME NEW t \in C, NEW f \in Fields PROVE g.ptr[<<f, t>>] = h.ptr[<<f, t>>]
      OBVIOUS
    <3>1. t \in Tasks /\ t # lo /\ t # hi
      BY <1>1, <1>3
    <3>2. <<f, t>> \in Places
      BY <3>1, IsPlace
    <3> QED BY <3>1, <3>2, <1>6
  <2>2. \A t \in C : t \in Tasks /\ t # hi /\ t # s
    BY <1>1, <1>3, NoneIsNoTask
  <2>3. \A t \in C : g.pprev[t] = h.pprev[t]
    BY <2>2, <1>6
  <2> QED BY <2>1, <2>3, <1>2, <1>6, TreeFrame DEF HeapTree
<1>9. Children(g, hi) = d /\ NextOf(g, hi) = s /\ Children(g, lo) = hi /\ NextOf(g, lo) = None
  <2>1. <<"children", hi>> \in Places /\ <<"next", lo>> \in Places
    BY IsPlace
  <2> QED BY <2>1, <1>5, <1>6 DEF Children, NextOf
<1>10. d # None => g.pprev[d] = <<"children", hi>>
  BY <1>2, <1>3, <1>5, <1>6
<1>11. HeapTree(g, hi, {hi} \cup (C \cup A))
  <2>1. hi \notin C /\ hi \notin A /\ C \cap A = {}
    BY <1>2
  <2>2. \A u \in C : g.due[hi] <= g.due[u]
    BY <1>2, <1>6
  <2> HIDE DEF s, d, A, C
  <2> QED BY <2>1, <2>2, <1>6, <1>7, <1>8, <1>9, <1>10, HeapJoin
<1>12. HeapTree(g, lo, {lo} \cup (({hi} \cup (C \cup A)) \cup {}))
  <2> DEFINE K == {hi} \cup (C \cup A)
  <2>1. lo \notin K /\ K \cap {} = {} /\ lo \notin {}
    BY <1>1, <1>5
  <2>2. ASSUME NEW u \in K PROVE g.due[lo] <= g.due[u]
    <3>1. CASE u = hi
      BY <3>1, <1>6
    <3>2. CASE u \in A
      BY <3>2, <1>1, <1>6
    <3>3. CASE u \in C
      <4>1. h.due[hi] <= h.due[u] /\ u \in Tasks
        BY <3>3, <1>2, <1>3
      <4>2. h.due[lo] \in Nat /\ h.due[hi] \in Nat /\ h.due[u] \in Nat
        BY <4>1, HeapType, TaskQueueAssumption
      <4>3. h.due[lo] <= h.due[u]
        BY <4>1, <4>2
      <4> QED BY <4>3, <1>6
    <3> QED BY <3>1, <3>2, <3>3
  <2>3. HeapTree(g, None, {})
    BY EmptyTree DEF HeapTree
  <2> HIDE DEF K
  <2>4. HeapTree(g, hi, K)
    BY <1>11 DEF K
  <2>5. HeapTree(g, lo, {lo} \cup (K \cup {}))
    BY <2>1, <2>2, <2>3, <2>4, <1>6, <1>9, HeapJoin
  <2> QED BY <2>5 DEF K
<1>13. {lo} \cup (({hi} \cup (C \cup A)) \cup {}) = L \cup H
  BY <1>1, <1>2
<1>14. Within(h, g, L \cup H)
  <2>1. ASSUME NEW f \in Fields, NEW x \in Elements \ (L \cup H)
        PROVE  g.ptr[<<f, x>>] = h.ptr[<<f, x>>]
    <3>1. <<f, x>> \in Places /\ x # lo /\ x # hi
      BY <1>1, <1>2, IsPlace
    <3> QED BY <3>1, <1>6
  <2>2. ASSUME NEW t \in Tasks \ (L \cup H) PROVE g.pprev[t] = h.pprev[t]
    <3>1. t # hi /\ t # s
      BY <1>2, <1>3, NoneIsNoTask
    <3> QED BY <3>1, <1>6
  <2> QED BY <2>1, <2>2, <1>6 DEF Within
<1> QED BY <1>6, <1>9, <1>12, <1>13, <1>14

LEMMA WithinItself == ASSUME NEW h, NEW S PROVE Within(h, h, S)
BY DEF Within

\* m is what becomes of queues with the elements A in the heap h:
\* one queue.
IsMerged(h, A, m) ==
  /\ m.heap \in Heaps /\ m.root \in Tasks \cup {None}
  /\ HeapTree(m.heap, m.root, A)
  /\ m.root # None => NextOf(m.heap, m.root) = None
  /\ Within(h, m.heap, A)

(***************************************************************************)
(* taskqueue_merge makes one queue of two.                                 *)
(***************************************************************************)
LEMMA MergeTrees ==
  ASSUME NEW h \in Heaps, NEW q1 \in Tasks, NEW q2 \in Tasks \cup {None}, NEW S1, NEW S2,
         HeapTree(h, q1, S1), HeapTree(h, q2, S2), S1 \cap S2 = {},
         NextOf(h, q1) = None, q2 # None => NextOf(h, q2) = None,
         NEW m, m = Merge(h, q1, q2)
  PROVE  IsMerged(h, S1 \cup S2, m) /\ m.root \in Tasks
<1> DEFINE lo == IF h.due[q1] < h.due[q2] THEN q1 ELSE q2
           hi == IF lo = q1 THEN q2 ELSE q1
<1>1. CASE q2 = None
  <2>1. m = [heap |-> Check(h, NextOf(h, q1) = None), root |-> q1]
    BY <1>1 DEF Merge
  <2>2. Check(h, NextOf(h, q1) = None) = h
    BY CheckHolds
  <2>3. m.heap = h /\ m.root = q1
    BY <2>1, <2>2
  <2>4. S2 = {}
    BY <1>1, TreeRoot DEF HeapTree
  <2>5. S1 \cup S2 = S1
    BY <2>4
  <2> QED BY <2>3, <2>5, WithinItself DEF IsMerged
<1>2. CASE q2 # None
  <2>1. Check(h, NextOf(h, q1) = None /\ NextOf(h, q2) = None) = h
    BY <1>2, CheckHolds
  <2>2. m = [heap |-> Link(h, <<"children", lo>>, hi), root |-> lo]
    BY <1>2, <2>1 DEF Merge
  <2>3. q2 \in Tasks
    BY <1>2
  <2>4. h.due[q1] \in Nat /\ h.due[q2] \in Nat
    BY <2>3, HeapType, TaskQueueAssumption
  <2>5. q1 # q2
    <3>1. q1 \in S1 /\ q2 \in S2
      BY <1>2, NoneIsNoTask, TreeRoot DEF HeapTree
    <3> QED BY <3>1
  <2>6. \/ lo = q1 /\ hi = q2 /\ h.due[q1] <= h.due[q2]
        \/ lo = q2 /\ hi = q1 /\ h.due[q2] <= h.due[q1]
    BY <2>4, <2>5
  <2>7. m.heap = Link(h, <<"children", lo>>, hi) /\ m.root = lo
    BY <2>2
  <2> HIDE DEF lo, hi
  <2>8. CASE lo = q1 /\ hi = q2 /\ h.due[q1] <= h.due[q2]
    <3>1. /\ m.heap \in Heaps /\ HeapTree(m.heap, q1, S1 \cup S2)
          /\ NextOf(m.heap, q1) = None /\ Within(h, m.heap, S1 \cup S2)
      BY <2>3, <2>7, <2>8, <1>2, LinkTrees
    <3>2. m.root = q1
      BY <2>7, <2>8
    <3> QED BY <3>1, <3>2 DEF IsMerged
  <2>9. CASE lo = q2 /\ hi = q1 /\ h.due[q2] <= h.due[q1]
    <3>1. S2 \cap S1 = {} /\ S2 \cup S1 = S1 \cup S2
      OBVIOUS
    <3>2. /\ m.heap \in Heaps /\ HeapTree(m.heap, q2, S2 \cup S1)
          /\ NextOf(m.heap, q2) = None /\ Within(h, m.heap, S2 \cup S1)
      BY <3>1, <2>3, <2>7, <2>9, <1>2, LinkTrees
    <3>3. m.root = q2 /\ q2 \in Tasks
      BY <2>3, <2>7, <2>9
    <3> QED BY <3>1, <3>2, <3>3 DEF IsMerged
  <2> QED BY <2>6, <2>8, <2>9
<1> QED BY <1>1, <1>2

-----------------------------------------------------------------------------
(* A function that is defined by recursion: what it is for x is made by k  *)
(* of x and of what it is for g[x], as long as x is in C, and is r[x]      *)
(* otherwise.  It exists if a measure decreases.                           *)

LEMMA LeastNumber ==
  ASSUME NEW T, T \subseteq Nat, T # {}
  PROVE  \E m \in T : \A n \in T : m <= n
<1> DEFINE R == OpToRel(<, Nat)
<1>1. IsWellFoundedOn(R, Nat)
  BY NatLessThanWellFounded
<1>2. \A x, y \in Nat : y < x => <<y, x>> \in R
  BY DEF OpToRel
<1> HIDE DEF R
<1>3. PICK m \in T : \A y \in T : ~ (<<y, m>> \in R)
  BY <1>1, WFMin
<1>4. ASSUME NEW n \in T PROVE m <= n
  <2>1. m \in Nat /\ n \in Nat
    OBVIOUS
  <2>2. ~(n < m)
    BY <1>2, <1>3, <2>1
  <2> QED BY <2>1, <2>2
<1> QED BY <1>4

\* If whatever fails has something of a smaller measure that fails, nothing does.
LEMMA NoLeastFailure ==
  ASSUME NEW S, NEW m \in [S -> Nat], NEW B, B \subseteq S,
         \A x \in B : \E y \in B : m[y] < m[x]
  PROVE  B = {}
<1> SUFFICES ASSUME B # {} PROVE FALSE
  OBVIOUS
<1> DEFINE T == {m[x] : x \in B}
<1>1. T \subseteq Nat /\ T # {}
  OBVIOUS
<1>2. PICK k \in T : \A n \in T : k <= n
  BY <1>1, LeastNumber
<1>3. PICK x \in B : k = m[x]
  BY <1>2
<1>4. PICK y \in B : m[y] < m[x]
  OBVIOUS
<1>5. m[x] <= m[y] /\ m[x] \in Nat /\ m[y] \in Nat
  BY <1>2, <1>3
<1> QED BY <1>4, <1>5

Descends(S, C, g, m) ==
  /\ m \in [S -> Nat]
  /\ \A x \in S : x \in C => g[x] \in S /\ m[g[x]] < m[x]

Recurses(f, S, C, g, k, r) ==
  \A x \in S : f[x] = IF x \in C THEN k[<<x, f[g[x]]>>] ELSE r[x]

LEMMA RecursionExists ==
  ASSUME NEW S, NEW V, NEW C, NEW g, NEW k, NEW r, NEW m, Descends(S, C, g, m),
         \A x \in S : x \notin C => r[x] \in V,
         \A x \in S, v \in V : x \in C => k[<<x, v>>] \in V
  PROVE  \E f \in [S -> V] : Recurses(f, S, C, g, k, r)
<1>m. /\ m \in [S -> Nat]
      /\ \A x \in S : x \in C => g[x] \in S /\ m[g[x]] < m[x]
  BY DEF Descends
<1> DEFINE Closed(P) == /\ \A x \in S : x \notin C => <<x, r[x]>> \in P
                        /\ \A x \in S, v \in V :
                             x \in C /\ <<g[x], v>> \in P => <<x, k[<<x, v>>]>> \in P
           G == {p \in S \X V : \A P \in SUBSET (S \X V) : Closed(P) => p \in P}
<1>1. Closed(G)
  <2>1. ASSUME NEW x \in S, x \notin C PROVE <<x, r[x]>> \in G
    BY <2>1
  <2>2. ASSUME NEW x \in S, NEW v \in V, x \in C, <<g[x], v>> \in G
        PROVE  <<x, k[<<x, v>>]>> \in G
    BY <2>2
  <2> HIDE DEF G
  <2> QED BY <2>1, <2>2
<1>2. ASSUME NEW P \in SUBSET (S \X V), Closed(P) PROVE G \subseteq P
  BY <1>2
<1>3. G \subseteq S \X V
  OBVIOUS
<1> HIDE DEF G
<1>4. \A x \in S : \E v \in V : <<x, v>> \in G
  <2> DEFINE B == {x \in S : ~\E v \in V : <<x, v>> \in G}
  <2>1. ASSUME NEW x \in B PROVE \E y \in B : m[y] < m[x]
    <3>1. x \in C
      BY <1>1
    <3>2. g[x] \in S /\ m[g[x]] < m[x]
      BY <3>1, <1>m
    <3>3. g[x] \in B
      <4> SUFFICES ASSUME NEW v \in V, <<g[x], v>> \in G PROVE FALSE
        BY <3>2
      <4>1. <<x, k[<<x, v>>]>> \in G /\ k[<<x, v>>] \in V
        BY <3>1, <1>1
      <4> QED BY <4>1
    <3> QED BY <3>2, <3>3
  <2>2. B \subseteq S
    OBVIOUS
  <2> HIDE DEF B
  <2>3. B = {}
    BY <2>1, <2>2, <1>m, NoLeastFailure
  <2> QED BY <2>3 DEF B
<1>5. ASSUME NEW x \in S, NEW v \in V, <<x, v>> \in G,
             x \notin C => v # r[x],
             x \in C => \A w \in V : <<g[x], w>> \in G => v # k[<<x, w>>]
      PROVE  FALSE
  <2> DEFINE P == G \ {<<x, v>>}
  <2>1. P \in SUBSET (S \X V)
    BY <1>3
  <2>2. ASSUME NEW y \in S, y \notin C PROVE <<y, r[y]>> \in P
    BY <1>1, <1>5, <2>2
  <2>3. ASSUME NEW y \in S, NEW u \in V, y \in C, <<g[y], u>> \in P
        PROVE  <<y, k[<<y, u>>]>> \in P
    BY <1>1, <1>5, <2>3
  <2>4. Closed(P)
    BY <2>2, <2>3
  <2>5. G \subseteq P
    BY <1>2, <2>1, <2>4
  <2> QED BY <1>5, <2>5
<1>6. \A x \in S : \A v, w \in V : <<x, v>> \in G /\ <<x, w>> \in G => v = w
  <2> DEFINE B == {x \in S : \E v, w \in V : <<x, v>> \in G /\ <<x, w>> \in G /\ v # w}
  <2>1. ASSUME NEW x \in B PROVE \E y \in B : m[y] < m[x]
    <3>1. x \in S
      OBVIOUS
    <3>2. PICK v \in V, w \in V : <<x, v>> \in G /\ <<x, w>> \in G /\ v # w
      OBVIOUS
    <3>3. x \in C
      BY <3>1, <3>2, <1>5
    <3>4. PICK v2 \in V : <<g[x], v2>> \in G /\ v = k[<<x, v2>>]
      BY <3>1, <3>2, <3>3, <1>5
    <3>5. PICK w2 \in V : <<g[x], w2>> \in G /\ w = k[<<x, w2>>]
      BY <3>1, <3>2, <3>3, <1>5
    <3>6. v2 # w2
      BY <3>2, <3>4, <3>5
    <3>7. g[x] \in S /\ m[g[x]] < m[x]
      BY <3>1, <3>3, <1>m
    <3>8. g[x] \in B
      BY <3>4, <3>5, <3>6, <3>7
    <3> QED BY <3>7, <3>8
  <2>2. B \subseteq S
    OBVIOUS
  <2> HIDE DEF B
  <2>3. B = {}
    BY <2>1, <2>2, <1>m, NoLeastFailure
  <2> QED BY <2>3 DEF B
<1> DEFINE f == [x \in S |-> CHOOSE v \in V : <<x, v>> \in G]
<1>7. \A x \in S : f[x] \in V /\ <<x, f[x]>> \in G
  BY <1>4
<1>d. f \in [S -> V]
  BY <1>7
<1> HIDE DEF f
<1>8. ASSUME NEW x \in S PROVE f[x] = IF x \in C THEN k[<<x, f[g[x]]>>] ELSE r[x]
  <2>1. CASE x \in C
    <3>1. g[x] \in S
      BY <2>1, <1>m
    <3>2. f[g[x]] \in V /\ <<g[x], f[g[x]]>> \in G
      BY <3>1, <1>7
    <3>3. <<x, k[<<x, f[g[x]]>>]>> \in G /\ k[<<x, f[g[x]]>>] \in V
      BY <2>1, <3>2, <1>1
    <3> QED BY <2>1, <3>3, <1>6, <1>7
  <2>2. CASE x \notin C
    <3>1. <<x, r[x]>> \in G /\ r[x] \in V
      BY <2>2, <1>1
    <3> QED BY <2>2, <3>1, <1>6, <1>7
  <2> QED BY <2>1, <2>2
<1>9. Recurses(f, S, C, g, k, r)
  BY <1>8 DEF Recurses
<1> QED BY <1>9, <1>d

-----------------------------------------------------------------------------
(* taskqueue_merge_pairs.                                                  *)

Queues == Nat \X Heaps \X (Tasks \cup {None})
Results == [heap : Heaps, root : Tasks \cup {None}]

\* The parts of the definition of MergePairs.
Apart(h, q0, q1) ==
  [Check(h, Linked(h, q0)) EXCEPT !.ptr = [@ EXCEPT ![<<"next", q0>>] = None,
                                                    ![<<"next", q1>>] = None]]
PairOf(s) ==
  LET q1 == NextOf(s[2], s[3]) IN Merge(Apart(s[2], s[3], q1), s[3], q1)
RestOf(s) == <<s[1] - 1, PairOf(s).heap, NextOf(s[2], NextOf(s[2], s[3]))>>
Body(s, v) ==
  IF s[1] = 0 \/ s[3] = None THEN [heap |-> s[2], root |-> None]
  ELSE IF NextOf(s[2], s[3]) = None
  THEN [heap |-> Check(s[2], Linked(s[2], s[3])), root |-> s[3]]
  ELSE Merge(v.heap, PairOf(s).root, v.root)

LEMMA CheckType ==
  ASSUME NEW h \in Heaps, NEW ok \in BOOLEAN PROVE Check(h, ok) \in Heaps
BY DEF Check, Heaps

LEMMA MergeType ==
  ASSUME NEW h \in Heaps, NEW q1 \in Tasks, NEW q2 \in Tasks \cup {None}
  PROVE  Merge(h, q1, q2) \in Results /\ Merge(h, q1, q2).root \in Tasks
<1> DEFINE lo == IF h.due[q1] < h.due[q2] THEN q1 ELSE q2
           hi == IF lo = q1 THEN q2 ELSE q1
           c == Check(h, NextOf(h, q1) = None /\ NextOf(h, q2) = None)
           g == Link(c, <<"children", lo>>, hi)
           d == Check(h, NextOf(h, q1) = None)
<1>1. c \in Heaps /\ d \in Heaps
  BY CheckType
<1>2. CASE q2 = None
  <2>1. Merge(h, q1, q2) = [heap |-> d, root |-> q1]
    BY <1>2 DEF Merge
  <2> HIDE DEF d
  <2> QED BY <2>1, <1>1 DEF Results
<1>3. CASE q2 # None
  <2>1. lo \in Tasks /\ hi \in Tasks
    BY <1>3
  <2>2. Merge(h, q1, q2) = [heap |-> g, root |-> lo]
    BY <1>3 DEF Merge
  <2> HIDE DEF lo, hi, c
  <2>3. <<"children", lo>> \in Places /\ <<"children", lo>> # <<"next", hi>>
    BY <2>1, IsPlace
  <2>4. IsLink(c, <<"children", lo>>, hi, c.ptr[<<"children", lo>>], g)
    BY <2>1, <2>3, <1>1, LinkFields
  <2>5. g \in Heaps
    BY <2>4 DEF IsLink
  <2> HIDE DEF g
  <2> QED BY <2>1, <2>2, <2>5 DEF Results
<1> QED BY <1>2, <1>3

LEMMA ApartFields ==
  ASSUME NEW h \in Heaps, NEW q0 \in Tasks, NEW q1 \in Tasks, NEW g, g = Apart(h, q0, q1)
  PROVE  /\ g \in Heaps
         /\ g.ptr = [h.ptr EXCEPT ![<<"next", q0>>] = None, ![<<"next", q1>>] = None]
         /\ g.pprev = h.pprev /\ g.due = h.due
         /\ Linked(h, q0) => g.bug = h.bug
<1> DEFINE c == Check(h, Linked(h, q0))
           P == [c.ptr EXCEPT ![<<"next", q0>>] = None, ![<<"next", q1>>] = None]
<1>1. c \in Heaps /\ c.ptr = h.ptr /\ c.pprev = h.pprev /\ c.due = h.due
  <2>1. Linked(h, q0) \in BOOLEAN
    BY DEF Linked
  <2>2. c \in Heaps
    BY <2>1, CheckType
  <2>3. c.ptr = h.ptr /\ c.pprev = h.pprev /\ c.due = h.due
    BY DEF Check, Heaps
  <2> QED BY <2>2, <2>3
<1>2. ASSUME Linked(h, q0) PROVE c.bug = h.bug
  <2>1. Linked(h, q0) = TRUE
    BY <1>2 DEF Linked
  <2>2. c = h
    BY <2>1, CheckHolds
  <2> QED BY <2>2
<1>3. g = [c EXCEPT !.ptr = P]
  BY DEF Apart
<1> HIDE DEF c
<1>4. P \in [Places -> Tasks \cup {None}]
  <2>1. <<"next", q0>> \in Places /\ <<"next", q1>> \in Places
    BY IsPlace
  <2> QED BY <2>1, <1>1, HeapType
<1>5. P = [h.ptr EXCEPT ![<<"next", q0>>] = None, ![<<"next", q1>>] = None]
  BY <1>1
<1> HIDE DEF P
<1>6. c = [ptr |-> c.ptr, pprev |-> c.pprev, due |-> c.due, bug |-> c.bug]
  BY <1>1, HeapType
<1>7. g = [ptr |-> P, pprev |-> c.pprev, due |-> c.due, bug |-> c.bug]
  BY <1>3, <1>6
<1>8. g \in Heaps
  BY <1>1, <1>4, <1>7, HeapType, IsHeap
<1>9. g.ptr = P /\ g.pprev = h.pprev /\ g.due = h.due /\ g.bug = c.bug
  BY <1>1, <1>7
<1> QED BY <1>2, <1>5, <1>8, <1>9

LEMMA PairType ==
  ASSUME NEW s \in Queues, s[1] # 0, s[3] # None, NextOf(s[2], s[3]) # None
  PROVE  PairOf(s) \in Results /\ PairOf(s).root \in Tasks /\ RestOf(s) \in Queues
<1> DEFINE h == s[2]
           q0 == s[3]
           q1 == NextOf(h, q0)
           g == Apart(h, q0, q1)
<1>1. s[1] \in Nat /\ h \in Heaps /\ q0 \in Tasks
  BY DEF Queues
<1>2. q1 \in Tasks
  <2>1. <<"next", q0>> \in Places
    BY <1>1, IsPlace
  <2>2. h.ptr[<<"next", q0>>] \in Tasks \cup {None}
    <3> HIDE DEF h, q0
    <3> QED BY <2>1, <1>1, HeapType
  <2> QED BY <2>2 DEF NextOf
<1>3. g \in Heaps
  <2> HIDE DEF h, q0, q1
  <2> QED BY <1>1, <1>2, ApartFields
<1>4. PairOf(s) = Merge(g, q0, q1)
  BY DEF PairOf
<1>5. PairOf(s) \in Results /\ PairOf(s).root \in Tasks
  <2> HIDE DEF h, q0, q1, g
  <2> QED BY <1>1, <1>2, <1>3, <1>4, MergeType
<1>6. PairOf(s).heap \in Heaps
  BY <1>5 DEF Results
<1>7. NextOf(h, q1) \in Tasks \cup {None}
  <2> HIDE DEF h, q0, q1, g
  <2>1. <<"next", q1>> \in Places
    BY <1>2, IsPlace
  <2>2. h.ptr[<<"next", q1>>] \in Tasks \cup {None}
    BY <2>1, <1>1, HeapType
  <2> QED BY <2>2 DEF NextOf
<1>8. RestOf(s) = <<s[1] - 1, PairOf(s).heap, NextOf(h, q1)>>
  BY DEF RestOf
<1>9. s[1] - 1 \in Nat
  BY <1>1
<1>10. RestOf(s) \in Queues
  <2> HIDE DEF h, q0, q1, g
  <2> QED BY <1>6, <1>7, <1>8, <1>9 DEF Queues
<1> QED BY <1>5, <1>10

\* The recursion ends, so MergePairs is what its definition says.
LEMMA MergePairsUnfolds == \A s \in Queues : MergePairs[s] = Body(s, MergePairs[RestOf(s)])
<1> DEFINE C == {s \in Queues : s[1] # 0 /\ s[3] # None /\ NextOf(s[2], s[3]) # None}
           g == [s \in Queues |-> RestOf(s)]
           k == [p \in Queues \X Results |-> Body(p[1], p[2])]
           r == [s \in Queues |-> Body(s, s)]
           m == [s \in Queues |-> s[1]]
<1>1. Descends(Queues, C, g, m)
  <2>1. m \in [Queues -> Nat]
    BY DEF Queues
  <2>2. ASSUME NEW s \in Queues, s \in C PROVE g[s] \in Queues /\ m[g[s]] < m[s]
    <3>1. g[s] = RestOf(s) /\ RestOf(s) \in Queues
      BY <2>2, PairType
    <3>2. m[g[s]] = s[1] - 1 /\ m[s] = s[1] /\ s[1] \in Nat
      BY <3>1 DEF RestOf, Queues
    <3> QED BY <3>1, <3>2
  <2> QED BY <2>1, <2>2 DEF Descends
<1>2. ASSUME NEW s \in Queues, s \notin C PROVE r[s] \in Results
  <2>1. s[2] \in Heaps /\ s[3] \in Tasks \cup {None}
    BY DEF Queues
  <2>2. r[s] = Body(s, s)
    OBVIOUS
  <2>3. CASE s[1] = 0 \/ s[3] = None
    <3>1. Body(s, s) = [heap |-> s[2], root |-> None]
      BY <2>3 DEF Body
    <3> QED BY <2>1, <2>2, <3>1 DEF Results
  <2>4. CASE ~(s[1] = 0 \/ s[3] = None)
    <3>1. Body(s, s) = [heap |-> Check(s[2], Linked(s[2], s[3])), root |-> s[3]]
      BY <2>4, <1>2 DEF Body
    <3>2. Check(s[2], Linked(s[2], s[3])) \in Heaps
      BY <2>1, CheckType DEF Linked
    <3> QED BY <2>1, <2>2, <3>1, <3>2 DEF Results
  <2> QED BY <2>3, <2>4
<1>3. ASSUME NEW s \in Queues, NEW v \in Results, s \in C PROVE k[<<s, v>>] \in Results
  <2>1. k[<<s, v>>] = Body(s, v)
    OBVIOUS
  <2>2. Body(s, v) = Merge(v.heap, PairOf(s).root, v.root)
    BY <1>3 DEF Body
  <2>3. PairOf(s).root \in Tasks
    BY <1>3, PairType
  <2>4. v.heap \in Heaps /\ v.root \in Tasks \cup {None}
    BY DEF Results
  <2> QED BY <2>1, <2>2, <2>3, <2>4, MergeType
<1>4. PICK f \in [Queues -> Results] : Recurses(f, Queues, C, g, k, r)
  <2> HIDE DEF C, g, k, r, m
  <2> QED BY <1>1, <1>2, <1>3, RecursionExists
<1>5. ASSUME NEW s \in Queues PROVE f[s] = Body(s, f[RestOf(s)])
  <2>1. f[s] = IF s \in C THEN k[<<s, f[g[s]]>>] ELSE r[s]
    BY <1>4 DEF Recurses
  <2>2. CASE s \in C
    <3>1. g[s] = RestOf(s) /\ RestOf(s) \in Queues
      BY <2>2, PairType
    <3>2. k[<<s, f[g[s]]>>] = Body(s, f[RestOf(s)])
      BY <3>1
    <3> QED BY <2>1, <2>2, <3>2
  <2>3. CASE s \notin C
    <3>1. f[s] = Body(s, s)
      BY <2>1, <2>3
    <3>2. Body(s, s) = Body(s, f[RestOf(s)])
      BY <2>3 DEF Body
    <3> QED BY <3>1, <3>2
  <2> QED BY <2>2, <2>3
<1>6. f = [s \in Queues |-> Body(s, f[RestOf(s)])]
  BY <1>5
<1>7. MergePairs = CHOOSE p : p = [s \in Queues |-> Body(s, p[RestOf(s)])]
  BY DEF MergePairs, Body, RestOf, PairOf, Apart, Queues
<1>8. MergePairs = [s \in Queues |-> Body(s, MergePairs[RestOf(s)])]
  BY <1>6, <1>7
<1> QED BY <1>8

LEMMA ApartTree ==
  ASSUME NEW h \in Heaps, NEW q0 \in Tasks, NEW q1 \in Tasks, NEW g, g = Apart(h, q0, q1),
         NEW q, NEW S, HeapTree(h, q, S), q0 \notin S, q1 \notin S
  PROVE  HeapTree(g, q, S)
<1>1. /\ g \in Heaps
      /\ g.ptr = [h.ptr EXCEPT ![<<"next", q0>>] = None, ![<<"next", q1>>] = None]
      /\ g.pprev = h.pprev /\ g.due = h.due
  BY ApartFields
<1>2. S \subseteq Tasks
  BY TreeRoot DEF HeapTree
<1>3. ASSUME NEW t \in S, NEW f \in Fields PROVE g.ptr[<<f, t>>] = h.ptr[<<f, t>>]
  <2>1. <<f, t>> \in Places /\ <<f, t>> # <<"next", q0>> /\ <<f, t>> # <<"next", q1>>
    BY <1>2, IsPlace
  <2> QED BY <2>1, <1>1, HeapType
<1>4. /\ \A t \in S, f \in Fields : g.ptr[<<f, t>>] = h.ptr[<<f, t>>]
      /\ \A t \in S : t # q => g.pprev[t] = h.pprev[t]
      /\ \A t \in S : g.due[t] = h.due[t]
  BY <1>1, <1>3
<1>5. Tree(h.ptr, h.pprev, h.due, q, S)
  BY DEF HeapTree
<1>6. Tree(g.ptr, g.pprev, g.due, q, S)
  BY ONLY <1>4, <1>5, TreeFrame
<1> QED BY <1>6 DEF HeapTree

LEMMA ApartAlone ==
  ASSUME NEW h \in Heaps, NEW q0 \in Tasks, NEW q1 \in Tasks, NEW g, g = Apart(h, q0, q1),
         NEW x \in {q0, q1}, NEW S, HeapTree(h, Children(h, x), S), q0 \notin S, q1 \notin S,
         Children(h, x) # None => h.pprev[Children(h, x)] = <<"children", x>>,
         \A u \in S : h.due[x] <= h.due[u]
  PROVE  HeapTree(g, x, {x} \cup S) /\ NextOf(g, x) = None
<1>1. /\ g \in Heaps
      /\ g.ptr = [h.ptr EXCEPT ![<<"next", q0>>] = None, ![<<"next", q1>>] = None]
      /\ g.pprev = h.pprev /\ g.due = h.due
  BY ApartFields
<1>2. x \in Tasks /\ x \notin S
  OBVIOUS
<1>3. Children(g, x) = Children(h, x) /\ NextOf(g, x) = None
  <2>1. <<"children", x>> \in Places /\ <<"next", x>> \in Places
    BY <1>2, IsPlace
  <2>2. <<"children", x>> # <<"next", q0>> /\ <<"children", x>> # <<"next", q1>>
    BY IsPlace
  <2> QED BY <2>1, <2>2, <1>1, HeapType DEF Children, NextOf
<1>4. HeapTree(g, Children(g, x), S)
  BY <1>3, ApartTree
<1>5. HeapTree(g, NextOf(g, x), {})
  BY <1>3, EmptyTree DEF HeapTree
<1>6. HeapTree(g, x, {x} \cup (S \cup {}))
  <2>1. Children(g, x) # None => g.pprev[Children(g, x)] = <<"children", x>>
    BY <1>1, <1>3
  <2>2. NextOf(g, x) # None => g.pprev[NextOf(g, x)] = <<"next", x>>
    BY <1>3
  <2>3. \A u \in S : g.due[x] <= g.due[u]
    BY <1>1
  <2>4. x \notin {} /\ S \cap {} = {}
    OBVIOUS
  <2> QED BY <2>1, <2>2, <2>3, <2>4, <1>1, <1>2, <1>4, <1>5, HeapJoin
<1>7. {x} \cup (S \cup {}) = {x} \cup S
  OBVIOUS
<1> QED BY <1>3, <1>6, <1>7

\* The list that starts at q has no more than n elements, those of A.
IsList(n, h, q, A) ==
  /\ h \in Heaps /\ q \in Tasks \cup {None}
  /\ HeapTree(h, q, A) /\ Cardinality(A) <= n
  /\ q # None => Linked(h, q)

LEMMA TreeFinite ==
  ASSUME NEW h, NEW q, NEW A, HeapTree(h, q, A)
  PROVE  IsFiniteSet(A) /\ Cardinality(A) \in Nat
<1>1. A \subseteq Tasks
  BY TreeRoot DEF HeapTree
<1>2. IsFiniteSet(A)
  BY <1>1, TaskQueueAssumption, FS_Subset
<1> QED BY <1>2, FS_CardinalityType

\* What is left after a pair has been taken off is shorter.
LEMMA ShorterBy ==
  ASSUME NEW A, IsFiniteSet(A), NEW q \in A, NEW E, E \subseteq A \ {q}, NEW n \in Nat,
         Cardinality(A) <= n
  PROVE  n # 0 /\ Cardinality(E) <= n - 1
<1>1. IsFiniteSet(A \ {q}) /\ Cardinality(A \ {q}) = Cardinality(A) - 1
  BY FS_RemoveElement
<1>2. Cardinality(E) <= Cardinality(A \ {q}) /\ IsFiniteSet(E)
  BY <1>1, FS_Subset
<1>3. Cardinality(A) \in Nat /\ Cardinality(E) \in Nat /\ Cardinality(A \ {q}) \in Nat
  BY <1>1, <1>2, FS_CardinalityType
<1> QED BY <1>1, <1>2, <1>3

LEMMA WithinTransitive ==
  ASSUME NEW a, NEW b, NEW c, NEW S, NEW T, NEW U, S \subseteq U, T \subseteq U,
         Within(a, b, S), Within(b, c, T)
  PROVE  Within(a, c, U)
<1>1. ASSUME NEW f \in Fields, NEW x \in Elements \ U
      PROVE  c.ptr[<<f, x>>] = a.ptr[<<f, x>>]
  <2>1. x \in Elements \ S /\ x \in Elements \ T
    OBVIOUS
  <2> QED BY <2>1 DEF Within
<1>2. ASSUME NEW t \in Tasks \ U PROVE c.pprev[t] = a.pprev[t]
  <2>1. t \in Tasks \ S /\ t \in Tasks \ T
    OBVIOUS
  <2> QED BY <2>1 DEF Within
<1> QED BY <1>1, <1>2 DEF Within

IsPair(n, h, q2, A, pair, X, E) ==
  /\ A = X \cup E /\ X \cap E = {}
  /\ IsMerged(h, X, pair) /\ pair.root # None
  /\ IsList(n - 1, pair.heap, q2, E)

\* The first two queues of a list are merged.
LEMMA PairMerges ==
  ASSUME NEW n \in Nat, NEW h, NEW q0, NEW A, IsList(n, h, q0, A), q0 # None,
         NEW q1, NEW q2, q1 = NextOf(h, q0), q1 # None, q2 = NextOf(h, q1),
         NEW pair, pair = Merge(Apart(h, q0, q1), q0, q1)
  PROVE  n # 0 /\ \E X, E : IsPair(n, h, q2, A, pair, X, E)
<1>1. /\ h \in Heaps /\ q0 \in Tasks /\ HeapTree(h, q0, A)
      /\ Cardinality(A) <= n /\ Linked(h, q0)
  BY DEF IsList
<1>2. PICK B0, E0 :
        /\ A = {q0} \cup (B0 \cup E0) /\ q0 \notin B0 /\ q0 \notin E0 /\ B0 \cap E0 = {}
        /\ HeapTree(h, Children(h, q0), B0) /\ HeapTree(h, q1, E0)
        /\ Children(h, q0) # None => h.pprev[Children(h, q0)] = <<"children", q0>>
        /\ \A u \in B0 : h.due[q0] <= h.due[u]
  <2>1. PICK B0, E0 :
          /\ A = {q0} \cup (B0 \cup E0) /\ q0 \notin B0 /\ q0 \notin E0 /\ B0 \cap E0 = {}
          /\ HeapTree(h, Children(h, q0), B0) /\ HeapTree(h, NextOf(h, q0), E0)
          /\ Children(h, q0) # None => h.pprev[Children(h, q0)] = <<"children", q0>>
          /\ NextOf(h, q0) # None => h.pprev[NextOf(h, q0)] = <<"next", q0>>
          /\ \A u \in B0 : h.due[q0] <= h.due[u]
    BY <1>1, HeapParts
  <2> QED BY <2>1
<1>3. PICK B1, E1 :
        /\ E0 = {q1} \cup (B1 \cup E1) /\ q1 \notin B1 /\ q1 \notin E1 /\ B1 \cap E1 = {}
        /\ HeapTree(h, Children(h, q1), B1) /\ HeapTree(h, q2, E1)
        /\ Children(h, q1) # None => h.pprev[Children(h, q1)] = <<"children", q1>>
        /\ q2 # None => h.pprev[q2] = <<"next", q1>>
        /\ \A u \in B1 : h.due[q1] <= h.due[u]
  <2>1. PICK B1, E1 :
          /\ E0 = {q1} \cup (B1 \cup E1) /\ q1 \notin B1 /\ q1 \notin E1 /\ B1 \cap E1 = {}
          /\ HeapTree(h, Children(h, q1), B1) /\ HeapTree(h, NextOf(h, q1), E1)
          /\ Children(h, q1) # None => h.pprev[Children(h, q1)] = <<"children", q1>>
          /\ NextOf(h, q1) # None => h.pprev[NextOf(h, q1)] = <<"next", q1>>
          /\ \A u \in B1 : h.due[q1] <= h.due[u]
    BY <1>2, HeapParts
  <2> QED BY <2>1
<1> DEFINE X0 == {q0} \cup B0
           X1 == {q1} \cup B1
           X == X0 \cup X1
           g == Apart(h, q0, q1)
<1>4. E0 \subseteq Tasks /\ q1 \in Tasks /\ B0 \subseteq Tasks /\ E1 \subseteq Tasks
  <2>1. E0 \subseteq Tasks /\ B0 \subseteq Tasks
    BY <1>2, TreeRoot DEF HeapTree
  <2> QED BY <2>1, <1>3
<1>5. A = X \cup E1 /\ X \cap E1 = {} /\ X0 \cap X1 = {}
  BY <1>2, <1>3
<1>6. q0 \notin E1 /\ q1 \notin E1 /\ q1 \notin B0 /\ q0 \notin B1
  BY <1>2, <1>3
<1>7. /\ g \in Heaps
      /\ g.ptr = [h.ptr EXCEPT ![<<"next", q0>>] = None, ![<<"next", q1>>] = None]
      /\ g.pprev = h.pprev /\ g.due = h.due /\ g.bug = h.bug
  BY <1>1, <1>4, ApartFields
<1>8. HeapTree(g, q0, X0) /\ NextOf(g, q0) = None
  BY <1>1, <1>2, <1>4, <1>6, ApartAlone
<1>9. HeapTree(g, q1, X1) /\ NextOf(g, q1) = None
  BY <1>1, <1>3, <1>4, <1>6, ApartAlone
<1>10. HeapTree(g, q2, E1)
  BY <1>1, <1>3, <1>4, <1>6, ApartTree
<1>11. Within(h, g, X)
  <2>1. ASSUME NEW f \in Fields, NEW x \in Elements \ X PROVE g.ptr[<<f, x>>] = h.ptr[<<f, x>>]
    <3>1. <<f, x>> \in Places /\ <<f, x>> # <<"next", q0>> /\ <<f, x>> # <<"next", q1>>
      BY IsPlace
    <3> QED BY <3>1, <1>1, <1>7, HeapType
  <2> QED BY <2>1, <1>7 DEF Within
<1> HIDE DEF g, X0, X1
<1>12. /\ pair.heap \in Heaps /\ pair.root \in Tasks
       /\ HeapTree(pair.heap, pair.root, X) /\ NextOf(pair.heap, pair.root) = None
       /\ Within(g, pair.heap, X)
  <2>1. pair = Merge(g, q0, q1) /\ q1 \in Tasks \cup {None}
    BY <1>4 DEF g
  <2>2. IsMerged(g, X, pair) /\ pair.root \in Tasks
    BY <2>1, <1>1, <1>5, <1>7, <1>8, <1>9, MergeTrees
  <2> QED BY <2>2, NoneIsNoTask DEF IsMerged
<1> HIDE DEF X
<1>13. Within(h, pair.heap, X)
  BY <1>11, <1>12, WithinTransitive
<1>14. IsMerged(h, X, pair) /\ pair.root # None
  BY <1>12, <1>13, NoneIsNoTask DEF IsMerged
<1>15. HeapTree(pair.heap, q2, E1)
  <2>1. E1 \cap X = {}
    BY <1>5
  <2> QED BY <2>1, <1>7, <1>10, <1>12, TreeWithin
<1>16. n # 0 /\ Cardinality(E1) <= n - 1
  <2>1. IsFiniteSet(A)
    BY <1>1, TreeFinite
  <2>2. q0 \in A /\ E1 \subseteq A \ {q0}
    BY <1>2, <1>3
  <2> QED BY <2>1, <2>2, <1>1, ShorterBy
<1>17. q2 \in Tasks \cup {None} /\ (q2 # None => Linked(pair.heap, q2))
  <2>1. q2 # None => q2 \in E1
    BY <1>3, TreeRoot DEF HeapTree
  <2>2. ASSUME q2 # None PROVE Linked(pair.heap, q2)
    <3>1. q2 \in Tasks \ X
      BY <2>1, <2>2, <1>4, <1>5
    <3>2. pair.heap.pprev[q2] = <<"next", q1>>
      BY <3>1, <2>2, <1>3, <1>13 DEF Within
    <3> QED BY <3>2, IsPlace DEF Linked
  <2> QED BY <2>1, <2>2, <1>4
<1>18. IsPair(n, h, q2, A, pair, X, E1)
  BY <1>5, <1>12, <1>14, <1>15, <1>16, <1>17 DEF IsPair, IsList
<1> QED BY <1>16, <1>18

(***************************************************************************)
(* taskqueue_merge_pairs makes one queue of a list of queues, of whatever  *)
(* length, and calls exit_bug nowhere.                                     *)
(***************************************************************************)
LEMMA MergePairsMerges ==
  ASSUME NEW n \in Nat, NEW h, NEW q, NEW A, IsList(n, h, q, A)
  PROVE  IsMerged(h, A, MergePairs[<<n, h, q>>])
<1> DEFINE Works(i) == \A g, p, S : IsList(i, g, p, S) => IsMerged(g, S, MergePairs[<<i, g, p>>])
           B == {i \in Nat : ~Works(i)}
           m == [i \in Nat |-> i]
<1>1. ASSUME NEW i \in Nat, NEW g, NEW p, NEW S, IsList(i, g, p, S),
             i # 0 => Works(i - 1)
      PROVE  IsMerged(g, S, MergePairs[<<i, g, p>>])
  <2> DEFINE s == <<i, g, p>>
             q1 == NextOf(g, p)
             pair == Merge(Apart(g, p, q1), p, q1)
  <2>1. g \in Heaps /\ p \in Tasks \cup {None} /\ HeapTree(g, p, S)
    BY <1>1 DEF IsList
  <2>2. s \in Queues
    BY <2>1 DEF Queues
  <2>3. MergePairs[s] = Body(s, MergePairs[RestOf(s)])
    BY <2>2, MergePairsUnfolds
  <2>4. s[1] = i /\ s[2] = g /\ s[3] = p
    OBVIOUS
  <2>5. CASE p = None
    <3>1. MergePairs[s] = [heap |-> g, root |-> None]
      BY <2>3, <2>4, <2>5 DEF Body
    <3>2. MergePairs[s].heap = g /\ MergePairs[s].root = None
      BY <3>1
    <3> HIDE DEF s
    <3>3. IsMerged(g, S, MergePairs[s])
      BY <3>2, <2>1, <2>5, WithinItself DEF IsMerged
    <3> QED BY <3>3 DEF s
  <2>6. ASSUME p # None PROVE i # 0
    <3>1. p \in S /\ IsFiniteSet(S)
      BY <2>1, <2>6, TreeRoot, TreeFinite DEF HeapTree
    <3>2. Cardinality(S) <= i
      BY <1>1 DEF IsList
    <3>3. {} \subseteq S \ {p}
      OBVIOUS
    <3> QED BY <3>1, <3>2, <3>3, ShorterBy
  <2>7. CASE p # None /\ q1 = None
    <3>1. Linked(g, p) = TRUE
      BY <1>1, <2>7 DEF IsList, Linked
    <3>2. Check(g, Linked(g, p)) = g
      BY <2>1, <3>1, CheckHolds
    <3>3. MergePairs[s] = [heap |-> g, root |-> p]
      BY <2>3, <2>4, <2>6, <2>7, <3>2 DEF Body
    <3>4. MergePairs[s].heap = g /\ MergePairs[s].root = p
      BY <3>3
    <3> HIDE DEF s
    <3>5. IsMerged(g, S, MergePairs[s])
      BY <3>4, <2>1, <2>7, WithinItself DEF IsMerged
    <3> QED BY <3>5 DEF s
  <2>8. CASE p # None /\ q1 # None
    <3> DEFINE q2 == NextOf(g, q1)
               rest == MergePairs[<<i - 1, pair.heap, q2>>]
    <3>1. PairOf(s) = pair
      BY <2>4 DEF PairOf
    <3>2. RestOf(s) = <<i - 1, pair.heap, q2>>
      BY <2>4, <3>1 DEF RestOf
    <3>3. MergePairs[s] = Merge(rest.heap, pair.root, rest.root)
      BY <2>3, <2>4, <2>6, <2>8, <3>1, <3>2 DEF Body
    <3> HIDE DEF s
    <3>4. PICK X, E : IsPair(i, g, q2, S, pair, X, E)
      <4> HIDE DEF pair, q2, q1
      <4> QED BY <1>1, <2>8, PairMerges DEF pair, q2, q1
    <3> HIDE DEF pair, q2
    <3>5. /\ S = X \cup E /\ X \cap E = {}
          /\ IsMerged(g, X, pair) /\ pair.root # None
          /\ IsList(i - 1, pair.heap, q2, E)
      BY <3>4 DEF IsPair
    <3>6. IsMerged(pair.heap, E, rest)
      BY <3>5, <2>6, <2>8, <1>1
    <3> HIDE DEF rest
    <3>7. /\ pair.heap \in Heaps /\ pair.root \in Tasks
          /\ HeapTree(pair.heap, pair.root, X) /\ NextOf(pair.heap, pair.root) = None
          /\ Within(g, pair.heap, X)
      BY <3>5 DEF IsMerged
    <3>8. /\ rest.heap \in Heaps /\ rest.root \in Tasks \cup {None}
          /\ HeapTree(rest.heap, rest.root, E)
          /\ rest.root # None => NextOf(rest.heap, rest.root) = None
          /\ Within(pair.heap, rest.heap, E)
      BY <3>6 DEF IsMerged
    <3>9. HeapTree(rest.heap, pair.root, X)
      BY <3>5, <3>7, <3>8, TreeWithin
    <3>10. NextOf(rest.heap, pair.root) = None
      <4>1. pair.root \in X
        BY <3>5, <3>7, TreeRoot DEF HeapTree
      <4>2. pair.root \in Elements \ E
        BY <4>1, <3>5, <3>7, IsPlace
      <4> QED BY <4>2, <3>7, <3>8, IsPlace DEF Within, NextOf
    <3> DEFINE both == Merge(rest.heap, pair.root, rest.root)
    <3>11. /\ both.heap \in Heaps /\ both.root \in Tasks
           /\ HeapTree(both.heap, both.root, X \cup E)
           /\ NextOf(both.heap, both.root) = None
           /\ Within(rest.heap, both.heap, X \cup E)
      <4>1. IsMerged(rest.heap, X \cup E, both) /\ both.root \in Tasks
        BY <3>5, <3>7, <3>8, <3>9, <3>10, MergeTrees
      <4> HIDE DEF both
      <4> QED BY <4>1, NoneIsNoTask DEF IsMerged
    <3> HIDE DEF both
    <3>12. Within(g, both.heap, S)
      <4>1. Within(g, rest.heap, S)
        BY <3>5, <3>7, <3>8, WithinTransitive
      <4> QED BY <4>1, <3>5, <3>11, WithinTransitive
    <3>13. IsMerged(g, S, both)
      BY <3>5, <3>11, <3>12 DEF IsMerged
    <3> QED BY <3>3, <3>13 DEF both, s
  <2> QED BY <2>5, <2>7, <2>8
<1>2. ASSUME NEW i \in B PROVE \E j \in B : m[j] < m[i]
  <2>1. i \in Nat /\ ~Works(i)
    OBVIOUS
  <2>2. i # 0 /\ ~Works(i - 1)
    BY <1>1, <2>1
  <2>3. i - 1 \in Nat /\ i - 1 < i
    BY <2>1, <2>2
  <2>4. m[i - 1] = i - 1 /\ m[i] = i
    BY <2>1, <2>3
  <2>5. i - 1 \in B
    BY <2>2, <2>3
  <2> QED BY <2>3, <2>4, <2>5
<1>3. m \in [Nat -> Nat] /\ B \subseteq Nat
  OBVIOUS
<1> HIDE DEF B, m
<1>4. B = {}
  BY <1>2, <1>3, NoLeastFailure
<1>5. Works(n)
  BY <1>4 DEF B
<1> QED BY <1>5

-----------------------------------------------------------------------------
(* The queue of the context.                                               *)

Stored(h) == {t \in Tasks : Linked(h, t)}

\* The heap h with the due times D is a queue of the tasks S.
IsQueue(h, D, S) ==
  /\ h \in Heaps /\ S = Stored(h) /\ ~h.bug
  /\ Tree(h.ptr, h.pprev, D, Children(h, Root), S)
  /\ Children(h, Root) # None =>
       /\ h.pprev[Children(h, Root)] = <<"children", Root>>
       /\ NextOf(h, Children(h, Root)) = None
  /\ NextOf(h, Root) = None

LEMMA TreeLinked ==
  ASSUME NEW P, NEW B, NEW D, NEW q, NEW S, Tree(P, B, D, q, S), NEW t \in S, t # q
  PROVE  B[t] \in Fields \X S /\ P[B[t]] = t
<1>1. PICK sp : Spans(P, B, D, q, S, sp)
  BY DEF Tree
<1>2. q \in S /\ sp[q] = S
  BY <1>1 DEF Spans
<1> QED BY <1>1, <1>2 DEF Spans

\* The last step of taskqueue_insert, and what it does to the fields.
AtRoot(l, r) ==
  [l EXCEPT !.ptr[<<"children", Root>>] = r, !.pprev[r] = <<"children", Root>>]

LEMMA AtRootFields ==
  ASSUME NEW l \in Heaps, NEW r \in Tasks, NEW g, g = AtRoot(l, r)
  PROVE  /\ g \in Heaps
         /\ g.ptr = [l.ptr EXCEPT ![<<"children", Root>>] = r]
         /\ g.pprev = [l.pprev EXCEPT ![r] = <<"children", Root>>]
         /\ g.due = l.due /\ g.bug = l.bug
<1> DEFINE P == [l.ptr EXCEPT ![<<"children", Root>>] = r]
           B == [l.pprev EXCEPT ![r] = <<"children", Root>>]
<1>1. l = [ptr |-> l.ptr, pprev |-> l.pprev, due |-> l.due, bug |-> l.bug]
  BY HeapType
<1>2. g = [ptr |-> P, pprev |-> B, due |-> l.due, bug |-> l.bug]
  BY <1>1 DEF AtRoot
<1>3. <<"children", Root>> \in Places
  BY IsPlace
<1>4. P \in [Places -> Tasks \cup {None}] /\ B \in [Tasks -> Places \cup {NoPlace}]
  BY <1>3, HeapType
<1> HIDE DEF P, B
<1>5. g \in Heaps
  BY <1>2, <1>4, HeapType, IsHeap
<1>6. g.ptr = P /\ g.pprev = B /\ g.due = l.due /\ g.bug = l.bug
  BY <1>2
<1> QED BY <1>5, <1>6 DEF P, B

(***************************************************************************)
(* taskqueue_insert adds the task to the queue.                            *)
(***************************************************************************)
LEMMA InsertAdds ==
  ASSUME NEW h, NEW S, IsQueue(h, h.due, S), NEW e \in Tasks, e \notin S,
         NextOf(h, e) = None, Children(h, e) = None,
         NEW g, g = Insert(h, e)
  PROVE  IsQueue(g, g.due, S \cup {e}) /\ g.due = h.due
<1> DEFINE q == Children(h, Root)
           m == Merge(h, e, q)
           l == m.heap
           r == m.root
<1>1. /\ h \in Heaps /\ S = Stored(h) /\ ~h.bug /\ HeapTree(h, q, S)
      /\ q # None => NextOf(h, q) = None
      /\ NextOf(h, Root) = None
  BY DEF IsQueue, HeapTree
<1>2. q \in Tasks \cup {None} /\ S \subseteq Tasks
  BY <1>1, TreeRoot DEF HeapTree
<1>3. Check(h, ~Linked(h, e) /\ NextOf(h, e) = None /\ Children(h, e) = None) = h
  <2>1. ~Linked(h, e)
    BY <1>1 DEF Stored
  <2> QED BY <2>1, <1>1, CheckHolds
<1>4. g = AtRoot(l, r)
  BY <1>3 DEF Insert, AtRoot
<1>5. HeapTree(h, e, {e})
  <2>1. HeapTree(h, Children(h, e), {}) /\ HeapTree(h, NextOf(h, e), {})
    BY EmptyTree DEF HeapTree
  <2>2. HeapTree(h, e, {e} \cup ({} \cup {}))
    BY <2>1, <1>1, HeapJoin
  <2>3. {e} \cup ({} \cup {}) = {e}
    OBVIOUS
  <2> QED BY <2>2, <2>3
<1> HIDE DEF q
<1>6. IsMerged(h, {e} \cup S, m) /\ r \in Tasks
  <2>1. {e} \cap S = {}
    OBVIOUS
  <2> QED BY <2>1, <1>1, <1>2, <1>5, MergeTrees
<1> DEFINE T == S \cup {e}
<1>7. {e} \cup S = T /\ T \subseteq Tasks
  BY <1>2
<1>8. /\ l \in Heaps /\ HeapTree(l, r, T) /\ NextOf(l, r) = None
      /\ Within(h, l, T)
  <2> HIDE DEF m, T
  <2> QED BY <1>6, <1>7, NoneIsNoTask DEF IsMerged
<1> HIDE DEF m, l, r, T
<1>9. /\ g \in Heaps
      /\ g.ptr = [l.ptr EXCEPT ![<<"children", Root>>] = r]
      /\ g.pprev = [l.pprev EXCEPT ![r] = <<"children", Root>>]
      /\ g.due = l.due /\ g.bug = l.bug
  BY <1>4, <1>6, <1>8, AtRootFields
<1>10. /\ \A p \in Places : p # <<"children", Root>> => g.ptr[p] = l.ptr[p]
       /\ g.ptr[<<"children", Root>>] = r
       /\ \A t \in Tasks : t # r => g.pprev[t] = l.pprev[t]
       /\ g.pprev[r] = <<"children", Root>>
  <2>1. <<"children", Root>> \in Places
    BY IsPlace
  <2> QED BY <2>1, <1>6, <1>8, <1>9, HeapType
<1>11. Tree(g.ptr, g.pprev, g.due, r, T)
  <2>1. ASSUME NEW t \in T, NEW f \in Fields PROVE g.ptr[<<f, t>>] = l.ptr[<<f, t>>]
    <3>1. t # Root /\ t \in Elements
      BY <1>7, NoneIsNoTask, IsPlace
    <3>2. <<f, t>> \in Places /\ <<f, t>> # <<"children", Root>>
      BY <3>1, IsPlace
    <3> QED BY <3>2, <1>10
  <2>2. \A t \in T : t # r => g.pprev[t] = l.pprev[t]
    BY <1>7, <1>10
  <2>3. Tree(l.ptr, l.pprev, l.due, r, T) /\ \A t \in T : g.due[t] = l.due[t]
    BY <1>8, <1>9 DEF HeapTree
  <2> QED BY <2>1, <2>2, <2>3, TreeFrame
<1>12. Children(g, Root) = r
  BY <1>10 DEF Children
<1>13. NextOf(g, r) = None /\ NextOf(g, Root) = None
  <2>1. <<"next", r>> \in Places /\ <<"next", Root>> \in Places
    BY <1>6, IsPlace
  <2>2. <<"next", r>> # <<"children", Root>> /\ <<"next", Root>> # <<"children", Root>>
    BY IsPlace
  <2>3. Root \in Elements \ T /\ "next" \in Fields
    BY <1>7, NoneIsNoTask, IsPlace
  <2>4. l.ptr[<<"next", Root>>] = None
    BY <2>3, <1>1, <1>8 DEF Within, NextOf
  <2> QED BY <2>1, <2>2, <2>4, <1>8, <1>10 DEF NextOf
<1>14. Stored(g) = T
  <2>1. r \in T
    BY <1>6, <1>8, TreeRoot, NoneIsNoTask DEF HeapTree
  <2>2. ASSUME NEW t \in T PROVE Linked(g, t)
    <3>1. CASE t = r
      BY <3>1, <1>10, IsPlace DEF Linked
    <3>2. CASE t # r
      <4>1. g.pprev[t] \in Fields \X T
        BY <3>2, <1>11, TreeLinked
      <4> QED BY <4>1 DEF Linked, NoPlace, Fields
    <3> QED BY <3>1, <3>2
  <2>3. ASSUME NEW t \in Tasks \ T PROVE ~Linked(g, t)
    <3>1. g.pprev[t] = h.pprev[t]
      BY <2>1, <1>8, <1>10 DEF Within
    <3>2. ~Linked(h, t)
      BY <1>1 DEF Stored, T
    <3> QED BY <3>1, <3>2 DEF Linked
  <2> QED BY <2>2, <2>3, <1>7 DEF Stored
<1>15. g.due = h.due /\ ~g.bug
  BY <1>1, <1>8, <1>9 DEF Within
<1>16. IsQueue(g, g.due, T)
  BY <1>9, <1>10, <1>11, <1>12, <1>13, <1>14, <1>15 DEF IsQueue
<1> QED BY <1>15, <1>16 DEF T

\* The last step of taskqueue_remove, and what it does to the fields.
Cleared(l, e) == [l EXCEPT !.pprev[e] = NoPlace, !.ptr[<<"children", e>>] = None]

LEMMA ClearedFields ==
  ASSUME NEW l \in Heaps, NEW e \in Tasks, NEW g, g = Cleared(l, e)
  PROVE  /\ g \in Heaps
         /\ \A p \in Places : p # <<"children", e>> => g.ptr[p] = l.ptr[p]
         /\ g.ptr[<<"children", e>>] = None
         /\ \A t \in Tasks : t # e => g.pprev[t] = l.pprev[t]
         /\ g.pprev[e] = NoPlace
         /\ g.due = l.due /\ g.bug = l.bug
<1> DEFINE P == [l.ptr EXCEPT ![<<"children", e>>] = None]
           B == [l.pprev EXCEPT ![e] = NoPlace]
<1>1. l = [ptr |-> l.ptr, pprev |-> l.pprev, due |-> l.due, bug |-> l.bug]
  BY HeapType
<1>2. g = [ptr |-> P, pprev |-> B, due |-> l.due, bug |-> l.bug]
  BY <1>1 DEF Cleared
<1>3. <<"children", e>> \in Places
  BY IsPlace
<1>4. P \in [Places -> Tasks \cup {None}] /\ B \in [Tasks -> Places \cup {NoPlace}]
  BY <1>3, HeapType
<1>5. /\ \A p \in Places : p # <<"children", e>> => P[p] = l.ptr[p]
      /\ P[<<"children", e>>] = None
      /\ \A t \in Tasks : t # e => B[t] = l.pprev[t]
      /\ B[e] = NoPlace
  BY <1>3, HeapType
<1> HIDE DEF P, B
<1>6. g \in Heaps
  BY <1>2, <1>4, HeapType, IsHeap
<1>7. g.ptr = P /\ g.pprev = B /\ g.due = l.due /\ g.bug = l.bug
  BY <1>2
<1> QED BY <1>5, <1>6, <1>7

\* The list below and behind e has taken the place of e: l is h but for the
\* pointers of e and of the elements M of that list, which has the root r now.
IsReplaced(h, e, place, s, M, r, l) ==
  /\ l \in Heaps
  /\ HeapTree(l, r, M)
  /\ l.ptr[place] = r
  /\ r # None => l.pprev[r] = place
  /\ s = None /\ r # None => NextOf(l, r) = None
  /\ NextOf(l, e) = None
  /\ \A f \in Fields, x \in Elements :
       x \notin M /\ x # e /\ <<f, x>> # place => l.ptr[<<f, x>>] = h.ptr[<<f, x>>]
  /\ \A t \in Tasks : t \notin M /\ t # e => l.pprev[t] = h.pprev[t]
  /\ l.due = h.due /\ l.bug = h.bug

\* From h to l only the place, the next of e and the places of e and z change.
Writes(h, l, place, e, z) ==
  /\ h \in Heaps /\ l \in Heaps
  /\ \A p \in Places : p # place /\ p # <<"next", e>> => l.ptr[p] = h.ptr[p]
  /\ \A t \in Tasks : t # e /\ t # z => l.pprev[t] = h.pprev[t]
  /\ l.due = h.due

Avoids(place, S) == \A f \in Fields, x \in S : place # <<f, x>>

\* That does not affect a tree with none of them but z as its root.
LEMMA ReplacedTree ==
  ASSUME NEW h, NEW l, NEW place, NEW z, NEW e, Writes(h, l, place, e, z),
         NEW q, NEW S, HeapTree(h, q, S), e \notin S, z \in S => z = q, Avoids(place, S)
  PROVE  HeapTree(l, q, S)
<1>1. S \subseteq Tasks
  BY TreeRoot DEF HeapTree
<1>2. ASSUME NEW t \in S, NEW f \in Fields PROVE l.ptr[<<f, t>>] = h.ptr[<<f, t>>]
  <2>1. <<f, t>> \in Places /\ <<f, t>> # place /\ <<f, t>> # <<"next", e>>
    BY <1>1, IsPlace DEF Avoids
  <2> QED BY <2>1 DEF Writes
<1>3. \A t \in S : t # q => l.pprev[t] = h.pprev[t]
  BY <1>1 DEF Writes
<1>4. \A t \in S : l.due[t] = h.due[t]
  BY DEF Writes
<1> QED BY <1>2, <1>3, <1>4, TreeFrame DEF HeapTree

IsRemoved(h, e, place, s, M, g) ==
  /\ \E r : IsReplaced(h, e, place, s, M, r, g)
  /\ g.pprev[e] = NoPlace /\ Children(g, e) = None

\* The place belongs to an element other than x that is not in M.
Outside(place, x, M) ==
  \E f \in Fields, o \in Elements : place = <<f, o>> /\ o \notin M /\ o # x

LEMMA RemoveReplaces ==
  ASSUME NEW h \in Heaps, NEW e \in Tasks, NEW A, NEW E, NEW c, NEW s,
         c = Children(h, e), s = NextOf(h, e),
         HeapTree(h, c, A), HeapTree(h, s, E),
         e \notin A, e \notin E, A \cap E = {},
         c # None => h.pprev[c] = <<"children", e>>,
         NEW place, place = h.pprev[e], Outside(place, e, A \cup E),
         NEW g, g = Remove(h, e)
  PROVE  IsRemoved(h, e, place, s, A \cup E, g)
<1>o. PICK w \in Fields, o \in Elements :
        place = <<w, o>> /\ o \notin A /\ o \notin E /\ o # e
  BY DEF Outside
<1> DEFINE u == Unlink(h, e)
           m == MergePairs[<<Cardinality(Tasks), u, c>>]
           l == IF m.root = None THEN m.heap ELSE Link(m.heap, place, m.root)
<1>1. g = Cleared(l, e)
  BY DEF Remove, Cleared
<1>2. place \in Places /\ place # <<"next", e>> /\ place # <<"children", e>>
  BY <1>o, IsPlace
<1>3. IsUnlink(h, place, e, s, u)
  BY <1>2, UnlinkFields
<1>4. /\ u \in Heaps
      /\ u.ptr[<<"next", e>>] = None /\ u.ptr[place] = s
      /\ \A p \in Places : p # place /\ p # <<"next", e>> => u.ptr[p] = h.ptr[p]
      /\ s # None => u.pprev[s] = place
      /\ \A t \in Tasks : t # s => u.pprev[t] = h.pprev[t]
      /\ u.due = h.due /\ u.bug = h.bug
  <2> HIDE DEF u
  <2> QED BY <1>3 DEF IsUnlink
<1> HIDE DEF u
<1>5. /\ A \subseteq Tasks /\ E \subseteq Tasks
      /\ (c # None => c \in A) /\ (s # None => s \in E)
      /\ (c = None <=> A = {}) /\ (s = None <=> E = {})
  BY TreeRoot DEF HeapTree
<1>6. s \notin A /\ c \notin E /\ c \in Tasks \cup {None} /\ s \in Tasks \cup {None}
  BY <1>5, NoneIsNoTask
<1>7. HeapTree(u, c, A) /\ HeapTree(u, s, E)
  <2>1. Avoids(place, A) /\ Avoids(place, E)
    BY <1>o DEF Avoids
  <2>2. Writes(h, u, place, e, s)
    BY <1>4 DEF Writes
  <2>3. HeapTree(u, c, A)
    BY <2>1, <2>2, <1>6, ReplacedTree
  <2>4. HeapTree(u, s, E)
    BY <2>1, <2>2, ReplacedTree
  <2> QED BY <2>3, <2>4
<1>8. Cardinality(Tasks) \in Nat /\ IsList(Cardinality(Tasks), u, c, A)
  <2>1. Cardinality(Tasks) \in Nat /\ Cardinality(A) <= Cardinality(Tasks)
    BY <1>5, TaskQueueAssumption, FS_Subset, FS_CardinalityType
  <2>2. ASSUME c # None PROVE Linked(u, c)
    <3>1. u.pprev[c] = <<"children", e>>
      BY <2>2, <1>4, <1>5
    <3> QED BY <3>1, IsPlace DEF Linked
  <2> QED BY <2>1, <2>2, <1>4, <1>6, <1>7 DEF IsList
<1>9. IsMerged(u, A, m)
  BY <1>8, MergePairsMerges
<1> HIDE DEF m
<1>10. /\ m.heap \in Heaps /\ m.root \in Tasks \cup {None}
       /\ HeapTree(m.heap, m.root, A)
       /\ m.root # None => NextOf(m.heap, m.root) = None
       /\ Within(u, m.heap, A)
  BY <1>9 DEF IsMerged
<1>11. HeapTree(m.heap, s, E)
  <2>1. E \cap A = {}
    OBVIOUS
  <2> QED BY <2>1, <1>4, <1>7, <1>10, TreeWithin
<1>12. /\ \A f \in Fields, x \in Elements : x \notin A => m.heap.ptr[<<f, x>>] = u.ptr[<<f, x>>]
       /\ \A t \in Tasks : t \notin A => m.heap.pprev[t] = u.pprev[t]
       /\ m.heap.due = h.due /\ m.heap.bug = h.bug
  BY <1>4, <1>10 DEF Within
<1>13. m.heap.ptr[place] = s /\ m.heap.ptr[<<"next", e>>] = None
  <2>1. "next" \in Fields /\ e \in Elements
    BY IsPlace
  <2>2. m.heap.ptr[<<w, o>>] = u.ptr[<<w, o>>]
    BY <1>o, <1>12
  <2>3. m.heap.ptr[<<"next", e>>] = u.ptr[<<"next", e>>]
    BY <2>1, <1>12
  <2> QED BY <2>2, <2>3, <1>o, <1>4
<1>14. \A f \in Fields, x \in Elements :
         x \notin A \cup E /\ x # e /\ <<f, x>> # place => m.heap.ptr[<<f, x>>] = h.ptr[<<f, x>>]
  <2> SUFFICES ASSUME NEW f \in Fields, NEW x \in Elements,
                      x \notin A \cup E, x # e, <<f, x>> # place
               PROVE  m.heap.ptr[<<f, x>>] = h.ptr[<<f, x>>]
    OBVIOUS
  <2>1. <<f, x>> \in Places /\ <<f, x>> # <<"next", e>>
    BY IsPlace
  <2> QED BY <2>1, <1>4, <1>12
<1>15. \A t \in Tasks : t \notin A \cup E => m.heap.pprev[t] = h.pprev[t]
  <2> SUFFICES ASSUME NEW t \in Tasks, t \notin A \cup E PROVE m.heap.pprev[t] = h.pprev[t]
    OBVIOUS
  <2>1. t # s
    BY <1>5, NoneIsNoTask
  <2> QED BY <2>1, <1>4, <1>12
<1>16. \E r : IsReplaced(h, e, place, s, A \cup E, r, l)
  <2>1. CASE m.root = None
    <3>1. A = {} /\ A \cup E = E
      BY <2>1, <1>10, TreeRoot DEF HeapTree
    <3>2. l = m.heap
      BY <2>1
    <3>3. s # None => m.heap.pprev[s] = place
      BY <3>1, <1>4, <1>6, <1>12
    <3>4. NextOf(m.heap, e) = None
      BY <1>13 DEF NextOf
    <3>5. IsReplaced(h, e, place, s, A \cup E, s, m.heap)
      BY <3>1, <3>3, <3>4, <1>10, <1>11, <1>12, <1>13, <1>14, <1>15 DEF IsReplaced
    <3> QED BY <3>2, <3>5
  <2>2. CASE m.root # None
    <3> DEFINE r == m.root
               k == m.heap
               C == A \ {r}
               d == Children(k, r)
    <3>0. l = Link(k, place, r)
      BY <2>2
    <3>1. r \in A /\ r \in Tasks /\ r # s /\ r # e
      BY <2>2, <1>5, <1>6, <1>10, TreeRoot DEF HeapTree
    <3>2. /\ HeapTree(k, d, C)
          /\ d # None => k.pprev[d] = <<"children", r>>
          /\ \A t \in C : k.due[r] <= k.due[t]
      BY <2>2, <1>10, TreeAlone
    <3>3. place # <<"next", r>> /\ place # <<"children", r>>
      BY <3>1, <1>o
    <3>4. /\ k \in Heaps /\ k.due = h.due /\ k.bug = h.bug /\ NextOf(k, r) = None
          /\ k.ptr[place] = s /\ k.ptr[<<"next", e>>] = None
          /\ HeapTree(k, s, E)
      BY <2>2, <1>10, <1>11, <1>12, <1>13
    <3>5. \A f \in Fields, x \in Elements :
            x \notin A \cup E /\ x # e /\ <<f, x>> # place => k.ptr[<<f, x>>] = h.ptr[<<f, x>>]
      BY <1>14
    <3>6. \A t \in Tasks : t \notin A \cup E => k.pprev[t] = h.pprev[t]
      BY <1>15
    <3> HIDE DEF l, k, r
    <3>7. IsLink(k, place, r, s, l)
      BY <3>0, <3>1, <3>3, <3>4, <1>2, LinkFields
    <3>8. /\ l \in Heaps
          /\ l.ptr[<<"next", r>>] = s /\ l.ptr[place] = r
          /\ \A p \in Places : p # place /\ p # <<"next", r>> => l.ptr[p] = k.ptr[p]
          /\ l.pprev[r] = place
          /\ s # None => l.pprev[s] = <<"next", r>>
          /\ \A t \in Tasks : t # r /\ t # s => l.pprev[t] = k.pprev[t]
          /\ l.due = h.due /\ l.bug = h.bug
      BY <3>1, <3>4, <3>7 DEF IsLink
    <3>9. Avoids(place, C) /\ Avoids(place, E) /\ Writes(k, l, place, r, s)
      <4>1. Avoids(place, C) /\ Avoids(place, E)
        BY <1>o DEF Avoids
      <4>2. Writes(k, l, place, r, s)
        BY <3>4, <3>8 DEF Writes
      <4> QED BY <4>1, <4>2
    <3>10. HeapTree(l, d, C)
      <4>1. r \notin C /\ s \notin C
        BY <1>6
      <4> HIDE DEF C, d
      <4> QED BY <4>1, <3>2, <3>9, ReplacedTree
    <3>11. HeapTree(l, s, E)
      <4>1. r \notin E
        BY <3>1
      <4> HIDE DEF C, d
      <4> QED BY <4>1, <3>4, <3>9, ReplacedTree
    <3>12. Children(l, r) = d /\ NextOf(l, r) = s
      <4>1. <<"children", r>> \in Places /\ <<"children", r>> # <<"next", r>>
        BY <3>1, IsPlace
      <4> QED BY <4>1, <3>3, <3>8 DEF Children, NextOf
    <3>13. d # None => l.pprev[d] = <<"children", r>>
      <4>1. d # None => d \in C
        BY <3>2, TreeRoot DEF HeapTree
      <4>2. d # None => d \in Tasks /\ d # r /\ d # s
        BY <4>1, <1>5, <1>6
      <4> HIDE DEF d
      <4> QED BY <4>2, <3>2, <3>8
    <3>14. HeapTree(l, r, A \cup E)
      <4>1. r \notin C /\ r \notin E /\ C \cap E = {} /\ {r} \cup (C \cup E) = A \cup E
        BY <3>1
      <4>2. \A t \in C : l.due[r] <= l.due[t]
        BY <3>2, <3>4, <3>8
      <4> HIDE DEF C, d
      <4>3. HeapTree(l, r, {r} \cup (C \cup E))
        BY <4>1, <4>2, <3>1, <3>8, <3>10, <3>11, <3>12, <3>13, HeapJoin
      <4> QED BY <4>1, <4>3
    <3>15. NextOf(l, e) = None
      <4>1. <<"next", e>> \in Places /\ <<"next", e>> # <<"next", r>>
        BY <3>1, IsPlace
      <4> QED BY <4>1, <3>4, <3>8, <1>2 DEF NextOf
    <3>16. ASSUME NEW f \in Fields, NEW x \in Elements,
                  x \notin A \cup E, x # e, <<f, x>> # place
           PROVE  l.ptr[<<f, x>>] = h.ptr[<<f, x>>]
      <4>1. <<f, x>> \in Places /\ <<f, x>> # <<"next", r>>
        BY <3>1, <3>16, IsPlace
      <4> QED BY <4>1, <3>5, <3>8, <3>16
    <3>17. ASSUME NEW t \in Tasks, t \notin A \cup E PROVE l.pprev[t] = h.pprev[t]
      <4>1. t # r /\ t # s
        BY <3>1, <3>17, <1>5, NoneIsNoTask
      <4> QED BY <4>1, <3>6, <3>8, <3>17
    <3>18. s = None => NextOf(l, r) = None
      BY <3>12
    <3>19. IsReplaced(h, e, place, s, A \cup E, r, l)
      BY <3>8, <3>14, <3>15, <3>16, <3>17, <3>18 DEF IsReplaced
    <3> QED BY <3>19
  <2> QED BY <2>1, <2>2
<1> HIDE DEF l
<1>17. PICK r : IsReplaced(h, e, place, s, A \cup E, r, l)
  BY <1>16
<1> DEFINE M == A \cup E
<1>18. M \subseteq Tasks /\ e \notin M
  BY <1>5
<1> HIDE DEF M
<1>19. /\ l \in Heaps
       /\ HeapTree(l, r, M)
       /\ l.ptr[place] = r
       /\ r # None => l.pprev[r] = place
       /\ s = None /\ r # None => NextOf(l, r) = None
       /\ NextOf(l, e) = None
       /\ \A f \in Fields, x \in Elements :
            x \notin M /\ x # e /\ <<f, x>> # place => l.ptr[<<f, x>>] = h.ptr[<<f, x>>]
       /\ \A t \in Tasks : t \notin M /\ t # e => l.pprev[t] = h.pprev[t]
       /\ l.due = h.due /\ l.bug = h.bug
  BY <1>17 DEF IsReplaced, M
<1>20. /\ g \in Heaps
       /\ \A p \in Places : p # <<"children", e>> => g.ptr[p] = l.ptr[p]
       /\ g.ptr[<<"children", e>>] = None
       /\ \A t \in Tasks : t # e => g.pprev[t] = l.pprev[t]
       /\ g.pprev[e] = NoPlace
       /\ g.due = h.due /\ g.bug = h.bug
  BY <1>1, <1>19, ClearedFields
<1>21. r # None => r \in M
  BY <1>19, TreeRoot DEF HeapTree
<1>22. HeapTree(g, r, M)
  <2>1. ASSUME NEW t \in M, NEW f \in Fields PROVE g.ptr[<<f, t>>] = l.ptr[<<f, t>>]
    <3>1. <<f, t>> \in Places /\ <<f, t>> # <<"children", e>>
      BY <1>18, IsPlace
    <3> QED BY <3>1, <1>20
  <2>2. \A t \in M : g.pprev[t] = l.pprev[t] /\ g.due[t] = l.due[t]
    BY <1>18, <1>19, <1>20
  <2> QED BY <2>1, <2>2, <1>19, TreeFrame DEF HeapTree
<1>23. /\ g.ptr[place] = r
       /\ r # None => g.pprev[r] = place
       /\ s = None /\ r # None => NextOf(g, r) = None
       /\ NextOf(g, e) = None /\ Children(g, e) = None
  <2>1. g.ptr[place] = r
    BY <1>2, <1>19, <1>20
  <2>2. \A x \in Tasks : NextOf(g, x) = NextOf(l, x)
    <3> SUFFICES ASSUME NEW x \in Tasks PROVE NextOf(g, x) = NextOf(l, x)
      OBVIOUS
    <3>1. <<"next", x>> \in Places /\ <<"next", x>> # <<"children", e>>
      BY IsPlace
    <3> QED BY <3>1, <1>20 DEF NextOf
  <2>3. r # None => r \in Tasks /\ r # e
    BY <1>18, <1>21
  <2>4. Children(g, e) = None
    BY <1>20 DEF Children
  <2> QED BY <2>1, <2>2, <2>3, <2>4, <1>19, <1>20
<1>24. ASSUME NEW f \in Fields, NEW x \in Elements, x \notin M, x # e, <<f, x>> # place
       PROVE  g.ptr[<<f, x>>] = h.ptr[<<f, x>>]
  <2>1. <<f, x>> \in Places /\ <<f, x>> # <<"children", e>>
    BY <1>24, IsPlace
  <2> QED BY <2>1, <1>19, <1>20, <1>24
<1>25. ASSUME NEW t \in Tasks, t \notin M, t # e PROVE g.pprev[t] = h.pprev[t]
  BY <1>19, <1>20, <1>25
<1>26. IsReplaced(h, e, place, s, M, r, g)
  BY <1>20, <1>22, <1>23, <1>24, <1>25 DEF IsReplaced
<1> QED BY <1>20, <1>23, <1>26 DEF M, IsRemoved

\* The tasks of a queue are its elements.
LEMMA QueueStores ==
  ASSUME NEW g \in Heaps, NEW D, NEW T, Tree(g.ptr, g.pprev, D, Children(g, Root), T),
         Children(g, Root) # None => g.pprev[Children(g, Root)] = <<"children", Root>>,
         \A t \in Tasks \ T : ~Linked(g, t)
  PROVE  T = Stored(g)
<1>1. T \subseteq Tasks
  BY TreeRoot
<1>2. ASSUME NEW t \in T PROVE Linked(g, t)
  <2>1. CASE t = Children(g, Root)
    <3>1. g.pprev[t] = <<"children", Root>>
      BY <2>1, <1>1, NoneIsNoTask
    <3> QED BY <3>1, IsPlace DEF Linked
  <2>2. CASE t # Children(g, Root)
    <3>1. g.pprev[t] \in Fields \X T
      BY <2>2, TreeLinked
    <3> QED BY <3>1 DEF Linked, NoPlace, Fields
  <2> QED BY <2>1, <2>2
<1> QED BY <1>1, <1>2 DEF Stored

(***************************************************************************)
(* taskqueue_remove takes a task out of the queue, wherever it is, and     *)
(* even if its own due time has been changed before.                       *)
(***************************************************************************)
LEMMA RemoveTakesOut ==
  ASSUME NEW h, NEW D, NEW S, IsQueue(h, D, S), NEW e \in S,
         \A t \in S \ {e} : D[t] = h.due[t],
         NEW g, g = Remove(h, e)
  PROVE  /\ IsQueue(g, g.due, S \ {e}) /\ g.due = h.due
         /\ Children(g, e) = None /\ NextOf(g, e) = None
<1> DEFINE q == Children(h, Root)
           c == Children(h, e)
           s == NextOf(h, e)
           place == h.pprev[e]
<1>1. /\ h \in Heaps /\ S = Stored(h) /\ ~h.bug
      /\ Tree(h.ptr, h.pprev, D, q, S)
      /\ q # None => h.pprev[q] = <<"children", Root>> /\ NextOf(h, q) = None
      /\ NextOf(h, Root) = None
  BY DEF IsQueue
<1>2. PICK sp : Spans(h.ptr, h.pprev, D, q, S, sp)
  BY <1>1 DEF Tree
<1>3. e \in Tasks /\ S \subseteq Tasks /\ e # None /\ q # None /\ q \in S /\ sp[q] = S
  <2>1. S \subseteq Tasks /\ q \in S /\ sp[q] = S
    BY <1>2 DEF Spans
  <2> QED BY <2>1, NoneIsNoTask
<1>4. e \in sp[e] /\ sp[e] \subseteq S /\ (q \in sp[e] => e = q)
  BY <1>2, SpanFacts
<1>5. PICK A, E : Parts(h.ptr, h.pprev, D, e, sp[e], c, A, s, E)
  <2>1. Tree(h.ptr, h.pprev, D, e, sp[e])
    BY <1>2, SubTree
  <2>2. c = h.ptr[<<"children", e>>] /\ s = h.ptr[<<"next", e>>]
    BY DEF Children, NextOf
  <2> HIDE DEF c, s
  <2> QED BY <2>1, <2>2, <1>3, TreeParts
<1>6. /\ sp[e] = {e} \cup (A \cup E) /\ e \notin A /\ e \notin E /\ A \cap E = {}
      /\ Tree(h.ptr, h.pprev, D, c, A) /\ Tree(h.ptr, h.pprev, D, s, E)
      /\ c # None => h.pprev[c] = <<"children", e>>
  <2> HIDE DEF c, s
  <2> QED BY <1>5 DEF Parts
<1>7. A \cup E = sp[e] \ {e} /\ A \subseteq S \ {e} /\ E \subseteq S \ {e}
  BY <1>4, <1>6
<1>8. HeapTree(h, c, A) /\ HeapTree(h, s, E)
  <2>1. /\ \A t \in A : h.due[t] = D[t]
        /\ \A t \in E : h.due[t] = D[t]
    BY <1>7
  <2> HIDE DEF c, s
  <2> QED BY <2>1, <1>6, TreeFrame DEF HeapTree
\* The place of e belongs to an element that is not below e.
<1>9. \E w \in Fields, o \in Elements :
        /\ place = <<w, o>> /\ o \notin A /\ o \notin E /\ o # e
        /\ e # q => o \in S /\ h.ptr[place] = e
  <2>1. CASE e = q
    <3>1. place = <<"children", Root>>
      BY <2>1, <1>1, <1>3
    <3>2. Root \notin S
      BY <1>3, NoneIsNoTask
    <3> QED BY <3>1, <3>2, <2>1, <1>7, IsPlace
  <2>2. CASE e # q
    <3>1. place \in Fields \X S /\ h.ptr[place] = e
      BY <2>2, <1>1, TreeLinked
    <3>2. PICK w \in Fields, o \in S : place = <<w, o>>
      BY <3>1
    <3>3. Node(h.ptr, h.pprev, D, S, sp, o)
      BY <1>2 DEF Spans
    <3>4. o \notin sp[e]
      <4>1. h.ptr[<<w, o>>] = e
        BY <3>1, <3>2
      <4> QED BY <4>1, <3>3 DEF Node, Fields
    <3>5. o \in Elements
      BY <1>3, IsPlace
    <3> QED BY <3>1, <3>2, <3>4, <3>5, <1>6
  <2> QED BY <2>1, <2>2
<1>10. PICK w \in Fields, o \in Elements :
        /\ place = <<w, o>> /\ o \notin A /\ o \notin E /\ o # e
        /\ e # q => o \in S /\ h.ptr[place] = e
  BY <1>9
<1>11. IsRemoved(h, e, place, s, A \cup E, g)
  <2>1. e \notin A /\ e \notin E /\ A \cap E = {} /\ (c # None => h.pprev[c] = <<"children", e>>)
    BY <1>6
  <2>2. h \in Heaps /\ e \in Tasks /\ Outside(place, e, A \cup E)
    BY <1>1, <1>3, <1>10 DEF Outside
  <2>3. c = Children(h, e) /\ s = NextOf(h, e) /\ place = h.pprev[e]
    OBVIOUS
  <2> HIDE DEF c, s, place, q
  <2> QED BY ONLY g = Remove(h, e), <2>1, <2>2, <2>3, <1>8, RemoveReplaces
<1> DEFINE M == A \cup E
<1>12. PICK r : IsReplaced(h, e, place, s, M, r, g)
  BY <1>11 DEF IsRemoved
<1>13. M = sp[e] \ {e} /\ M \subseteq S \ {e}
  BY <1>7
<1> HIDE DEF M, place, s, c, q
<1>14. /\ g \in Heaps
       /\ HeapTree(g, r, M)
       /\ g.ptr[place] = r
       /\ r # None => g.pprev[r] = place
       /\ s = None /\ r # None => NextOf(g, r) = None
       /\ NextOf(g, e) = None
       /\ \A f \in Fields, x \in Elements :
            x \notin M /\ x # e /\ <<f, x>> # place => g.ptr[<<f, x>>] = h.ptr[<<f, x>>]
       /\ \A t \in Tasks : t \notin M /\ t # e => g.pprev[t] = h.pprev[t]
       /\ g.due = h.due /\ g.bug = h.bug
  BY <1>12 DEF IsReplaced
<1>15. Root \notin M /\ Root # e /\ Root \in Elements /\ Root \notin S
  BY <1>3, <1>13, NoneIsNoTask, IsPlace
<1>16. ASSUME NEW t \in Tasks \ (S \ {e}) PROVE ~Linked(g, t)
  <2>1. CASE t = e
    BY <2>1, <1>11 DEF Linked, IsRemoved
  <2>2. CASE t # e
    <3>1. t \notin M /\ t \notin S
      BY <2>2, <1>13, <1>16
    <3>2. g.pprev[t] = h.pprev[t]
      BY <2>2, <3>1, <1>14
    <3>3. ~Linked(h, t)
      BY <3>1, <1>1 DEF Stored
    <3> QED BY <3>2, <3>3 DEF Linked
  <2> QED BY <2>1, <2>2
<1>17. CASE e = q
  <2>1. place = <<"children", Root>> /\ s = None
    BY <1>17, <1>1, <1>3 DEF place, s
  <2>2. Children(g, Root) = r
    BY <2>1, <1>14 DEF Children
  <2>3. M = S \ {e}
    BY <1>3, <1>13, <1>17
  <2>4. Tree(g.ptr, g.pprev, g.due, Children(g, Root), S \ {e})
    BY <2>2, <2>3, <1>14 DEF HeapTree
  <2>5. NextOf(g, Root) = None
    <3>1. "next" \in Fields /\ <<"next", Root>> # place
      BY <2>1, IsPlace
    <3>2. g.ptr[<<"next", Root>>] = h.ptr[<<"next", Root>>]
      BY <3>1, <1>14, <1>15
    <3> QED BY <3>2, <1>1 DEF NextOf
  <2>6. Children(g, Root) # None =>
          g.pprev[Children(g, Root)] = <<"children", Root>> /\ NextOf(g, Children(g, Root)) = None
    BY <2>1, <2>2, <1>14
  <2>7. S \ {e} = Stored(g)
    BY <2>4, <2>6, <1>14, <1>16, QueueStores
  <2>8. IsQueue(g, g.due, S \ {e})
    BY <2>4, <2>5, <2>6, <2>7, <1>1, <1>14 DEF IsQueue
  <2> QED BY <2>8, <1>11, <1>14 DEF IsRemoved
<1>18. CASE e # q
  <2>1. o \in S /\ h.ptr[place] = e /\ o # Root
    BY <1>10, <1>15, <1>18
  <2>2. <<"children", Root>> # place /\ <<"next", Root>> # place
    BY <2>1, <1>10
  <2>3. Children(g, Root) = q /\ NextOf(g, Root) = None
    <3>1. "next" \in Fields /\ "children" \in Fields
      BY IsPlace
    <3>2. /\ g.ptr[<<"next", Root>>] = h.ptr[<<"next", Root>>]
          /\ g.ptr[<<"children", Root>>] = h.ptr[<<"children", Root>>]
      BY <3>1, <2>2, <1>14, <1>15
    <3> QED BY <3>2, <1>1 DEF NextOf, Children, q
  <2>4. q \notin M /\ q # e /\ q \in Tasks /\ q \in Elements
    BY <1>3, <1>4, <1>13, <1>18, IsPlace
  <2>5. g.pprev[q] = <<"children", Root>>
    BY <2>4, <1>1, <1>3, <1>14
  <2>6. NextOf(g, q) = None
    <3>1. <<"next", q>> # place /\ "next" \in Fields
      BY <2>1, <1>1, <1>3, IsPlace DEF NextOf
    <3>2. g.ptr[<<"next", q>>] = h.ptr[<<"next", q>>]
      BY <3>1, <2>4, <1>14
    <3> QED BY <3>2, <1>1, <1>3 DEF NextOf
  <2>7. Tree(g.ptr, g.pprev, g.due, q, S \ {e})
    <3> DEFINE P == h.ptr
               B == h.pprev
               P2 == g.ptr
               B2 == g.pprev
               D2 == g.due
    <3>1. Spans(P, B, D, q, S, sp)
      BY <1>2
    <3>2. Tree(P2, B2, D2, r, sp[e] \ {e})
      BY <1>13, <1>14 DEF HeapTree
    <3>3. P2[B[e]] = r /\ (r # None => B2[r] = B[e])
      BY <1>14 DEF place
    <3>4. ASSUME NEW t \in S \ sp[e], NEW f \in Fields, <<f, t>> # B[e]
          PROVE  P2[<<f, t>>] = P[<<f, t>>]
      <4>1. t \in Elements /\ t \notin M /\ t # e /\ <<f, t>> # place
        BY <3>4, <1>3, <1>4, <1>13, IsPlace DEF place
      <4> QED BY <4>1, <1>14
    <3>5. ASSUME NEW t \in S \ sp[e] PROVE B2[t] = B[t]
      <4>1. t \in Tasks /\ t \notin M /\ t # e
        BY <1>3, <1>4, <1>13
      <4> QED BY <4>1, <1>14
    <3>6. \A t \in S \ {e} : D2[t] = D[t]
      BY <1>14
    <3> HIDE DEF P, B, P2, B2, D2
    <3>7. \A t \in S \ sp[e], f \in Fields : <<f, t>> # B[e] => P2[<<f, t>>] = P[<<f, t>>]
      BY <3>4
    <3>8. \A t \in S \ sp[e] : B2[t] = B[t]
      BY <3>5
    <3>9. Tree(P2, B2, D2, q, S \ {e})
      BY ONLY <3>1, <3>2, <3>3, <3>6, <3>7, <3>8, <1>18, e \in S, TreeWithout
    <3> QED BY <3>9 DEF P2, B2, D2
  <2>8. S \ {e} = Stored(g)
    BY <2>3, <2>5, <2>7, <1>14, <1>16, QueueStores
  <2>9. IsQueue(g, g.due, S \ {e})
    BY <2>3, <2>5, <2>6, <2>7, <2>8, <1>1, <1>14 DEF IsQueue
  <2> QED BY <2>9, <1>11, <1>14 DEF IsRemoved
<1> QED BY <1>17, <1>18

\* The first task is one of those that are due first.
LEMMA FirstIsLeast ==
  ASSUME NEW h, NEW S, IsQueue(h, h.due, S)
  PROVE  /\ S = {} <=> Children(h, Root) = None
         /\ Children(h, Root) # None =>
              /\ Children(h, Root) \in S
              /\ \A t \in S : h.due[Children(h, Root)] <= h.due[t]
<1> DEFINE q == Children(h, Root)
<1>1. h \in Heaps /\ HeapTree(h, q, S) /\ (q # None => NextOf(h, q) = None)
  BY DEF IsQueue, HeapTree
<1>2. S = {} <=> q = None
  BY <1>1, TreeRoot DEF HeapTree
<1>3. ASSUME q # None PROVE q \in S /\ \A t \in S : h.due[q] <= h.due[t]
  <2>1. q \in S /\ q \in Tasks /\ \A t \in S \ {q} : h.due[q] <= h.due[t]
    BY <1>1, <1>3, TreeAlone
  <2>2. h.due[q] \in Nat
    BY <1>1, <2>1, HeapType, TaskQueueAssumption
  <2>3. h.due[q] <= h.due[q]
    BY <2>2
  <2> QED BY <2>1, <2>3
<1> QED BY <1>2, <1>3

\* A task that is allocated is not part of the queue yet.
LEMMA FreshFields ==
  ASSUME NEW h \in Heaps, NEW t \in Tasks, NEW d \in 0..MaxTime, NEW g, g = Fresh(h, t, d)
  PROVE  /\ g \in Heaps
         /\ g.ptr[<<"children", t>>] = None /\ g.ptr[<<"next", t>>] = None
         /\ \A f \in Fields, x \in Elements : x # t => g.ptr[<<f, x>>] = h.ptr[<<f, x>>]
         /\ g.pprev[t] = NoPlace
         /\ \A u \in Tasks : u # t => g.pprev[u] = h.pprev[u]
         /\ g.due = [h.due EXCEPT ![t] = d]
         /\ g.bug = h.bug
<1> DEFINE P == [h.ptr EXCEPT ![<<"children", t>>] = None, ![<<"next", t>>] = None]
           B == [h.pprev EXCEPT ![t] = NoPlace]
           E == [h.due EXCEPT ![t] = d]
<1>1. h = [ptr |-> h.ptr, pprev |-> h.pprev, due |-> h.due, bug |-> h.bug]
  BY HeapType
<1>2. g = [ptr |-> P, pprev |-> B, due |-> E, bug |-> h.bug]
  BY <1>1 DEF Fresh
<1>3. <<"children", t>> \in Places /\ <<"next", t>> \in Places
  BY IsPlace
<1>4. P \in [Places -> Tasks \cup {None}] /\ B \in [Tasks -> Places \cup {NoPlace}]
  BY <1>3, HeapType
<1>5. E \in [Tasks -> 0..MaxTime]
  BY HeapType
<1>6. /\ P[<<"children", t>>] = None /\ P[<<"next", t>>] = None
      /\ B[t] = NoPlace
      /\ \A u \in Tasks : u # t => B[u] = h.pprev[u]
  BY <1>3, HeapType
<1>7. ASSUME NEW f \in Fields, NEW x \in Elements, x # t PROVE P[<<f, x>>] = h.ptr[<<f, x>>]
  <2>1. <<f, x>> \in Places /\ <<f, x>> # <<"children", t>> /\ <<f, x>> # <<"next", t>>
    BY <1>7, IsPlace
  <2> QED BY <2>1, <1>3, HeapType
<1> HIDE DEF P, B, E
<1>8. g \in Heaps
  BY <1>2, <1>4, <1>5, HeapType, IsHeap
<1>9. g.ptr = P /\ g.pprev = B /\ g.due = E /\ g.bug = h.bug
  BY <1>2
<1> QED BY <1>6, <1>7, <1>8, <1>9 DEF E

LEMMA FreshQueue ==
  ASSUME NEW h, NEW S, IsQueue(h, h.due, S), NEW t \in Tasks, t \notin S,
         NEW d \in 0..MaxTime, NEW g, g = Fresh(h, t, d)
  PROVE  /\ IsQueue(g, g.due, S) /\ g.due = [h.due EXCEPT ![t] = d]
         /\ Children(g, t) = None /\ NextOf(g, t) = None
<1> DEFINE q == Children(h, Root)
<1>1. /\ h \in Heaps /\ S = Stored(h) /\ ~h.bug /\ Tree(h.ptr, h.pprev, h.due, q, S)
      /\ q # None => h.pprev[q] = <<"children", Root>> /\ NextOf(h, q) = None
      /\ NextOf(h, Root) = None
  BY DEF IsQueue
<1>2. /\ g \in Heaps
      /\ g.ptr[<<"children", t>>] = None /\ g.ptr[<<"next", t>>] = None
      /\ \A f \in Fields, x \in Elements : x # t => g.ptr[<<f, x>>] = h.ptr[<<f, x>>]
      /\ g.pprev[t] = NoPlace
      /\ \A u \in Tasks : u # t => g.pprev[u] = h.pprev[u]
      /\ g.due = [h.due EXCEPT ![t] = d]
      /\ g.bug = h.bug
  BY <1>1, FreshFields
<1>3. S \subseteq Tasks /\ (q # None => q \in S) /\ S \subseteq Elements
  BY <1>1, TreeRoot, IsPlace
<1>4. Children(g, Root) = q /\ NextOf(g, Root) = None
  <2>1. Root # t /\ Root \in Elements /\ "children" \in Fields /\ "next" \in Fields
    BY NoneIsNoTask, IsPlace
  <2> QED BY <2>1, <1>1, <1>2 DEF Children, NextOf
<1> HIDE DEF q
<1>5. Tree(g.ptr, g.pprev, g.due, q, S)
  <2>1. \A x \in S, f \in Fields : g.ptr[<<f, x>>] = h.ptr[<<f, x>>]
    BY <1>2, <1>3
  <2>2. \A x \in S : g.pprev[x] = h.pprev[x]
    BY <1>2, <1>3
  <2>3. \A x \in S : g.due[x] = h.due[x]
    BY <1>1, <1>2, <1>3, HeapType
  <2> QED BY <2>1, <2>2, <2>3, <1>1, TreeFrame
<1>6. ASSUME q # None PROVE g.pprev[q] = <<"children", Root>> /\ NextOf(g, q) = None
  <2>1. q \in Tasks /\ q # t /\ q \in Elements /\ "next" \in Fields
    BY <1>3, <1>6, IsPlace
  <2> QED BY <2>1, <1>1, <1>2, <1>6 DEF NextOf
<1>7. ASSUME NEW u \in Tasks \ S PROVE ~Linked(g, u)
  <2>1. ~Linked(h, u)
    BY <1>1 DEF Stored
  <2> QED BY <2>1, <1>2 DEF Linked
<1>8. S = Stored(g)
  BY <1>2, <1>4, <1>5, <1>6, <1>7, QueueStores
<1>9. IsQueue(g, g.due, S)
  BY <1>1, <1>2, <1>4, <1>5, <1>6, <1>8 DEF IsQueue
<1> QED BY <1>2, <1>9 DEF Children, NextOf

\* reschedule_task writes the due time before it takes the task out.
DueAt(h, t, d) == [h EXCEPT !.due[t] = d]

LEMMA DueAtQueue ==
  ASSUME NEW h, NEW S, IsQueue(h, h.due, S), NEW t \in Tasks, NEW d \in 0..MaxTime,
         NEW g, g = DueAt(h, t, d)
  PROVE  IsQueue(g, h.due, S) /\ g.due = [h.due EXCEPT ![t] = d]
<1>1. h \in Heaps
  BY DEF IsQueue
<1> DEFINE E == [h.due EXCEPT ![t] = d]
<1>2. h = [ptr |-> h.ptr, pprev |-> h.pprev, due |-> h.due, bug |-> h.bug]
  BY <1>1, HeapType
<1>3. g = [ptr |-> h.ptr, pprev |-> h.pprev, due |-> E, bug |-> h.bug]
  BY <1>2 DEF DueAt
<1>4. E \in [Tasks -> 0..MaxTime]
  BY <1>1, HeapType
<1> HIDE DEF E
<1>5. g \in Heaps
  BY <1>1, <1>3, <1>4, HeapType, IsHeap
<1>6. g.ptr = h.ptr /\ g.pprev = h.pprev /\ g.due = E /\ g.bug = h.bug
  BY <1>3
<1>7. /\ Children(g, Root) = Children(h, Root) /\ Stored(g) = Stored(h)
      /\ \A x : NextOf(g, x) = NextOf(h, x)
  BY <1>6 DEF Children, NextOf, Stored, Linked
<1>8. IsQueue(g, h.due, S)
  BY <1>5, <1>6, <1>7 DEF IsQueue
<1> QED BY <1>6, <1>8 DEF E

-----------------------------------------------------------------------------
(* The operations of the task queue.                                       *)

(***************************************************************************)
(* The inductive invariant: the pointers form the queue of all tasks that  *)
(* are allocated, but for the one that is running.                         *)
(***************************************************************************)
Waiting == allocated \ {running}

QueueInv ==
  /\ now \in 0..MaxTime /\ allocated \subseteq Tasks
  /\ timer \in 0..Off /\ run \in 0..Off /\ running \in Tasks \cup {None}
  /\ IsQueue(heap, heap.due, Waiting)
  /\ RunningIsAllocated
  /\ TimerArmed

LEMMA QueueInvType ==
  ASSUME QueueInv
  PROVE  /\ TypeOK /\ Queued = Waiting /\ Waiting \subseteq Tasks
         /\ \A t \in Tasks : Linked(heap, t) <=> t \in Waiting
<1>1. heap \in Heaps /\ Waiting = Stored(heap) /\ allocated \subseteq Tasks
  BY DEF QueueInv, IsQueue
<1>2. \A t \in Tasks : Linked(heap, t) <=> t \in Waiting
  BY <1>1 DEF Stored
<1>3. Queued = Waiting /\ Waiting \subseteq Tasks
  BY <1>1, <1>2 DEF Queued, Waiting
<1>4. TypeOK
  BY <1>1 DEF QueueInv, TypeOK
<1> QED BY <1>2, <1>3, <1>4

LEMMA PostEffect ==
  ASSUME QueueInv, NEW t \in Tasks, NEW d \in 0..MaxDelay, PostTask(t, d)
  PROVE  /\ IsQueue(heap', heap'.due, Waiting') /\ Waiting' = Waiting \cup {t}
         /\ heap'.due = [heap.due EXCEPT ![t] = now + d]
         /\ now + d \in 0..MaxTime
<1>1. now + d \in 0..MaxTime
  BY TaskQueueAssumption DEF QueueInv, PostTask
<1>2. t \notin allocated /\ t \notin Waiting /\ t # running
  BY NoneIsNoTask DEF PostTask, Waiting, QueueInv, RunningIsAllocated
<1>3. Waiting' = Waiting \cup {t}
  BY <1>2 DEF PostTask, Waiting
<1> DEFINE g == Fresh(heap, t, now + d)
<1>4. /\ IsQueue(g, g.due, Waiting) /\ g.due = [heap.due EXCEPT ![t] = now + d]
      /\ Children(g, t) = None /\ NextOf(g, t) = None
  <2>1. IsQueue(heap, heap.due, Waiting)
    BY DEF QueueInv
  <2> QED BY <2>1, <1>1, <1>2, FreshQueue
<1>5. heap' = Insert(g, t)
  BY DEF PostTask
<1> HIDE DEF g
<1>6. IsQueue(heap', heap'.due, Waiting \cup {t}) /\ heap'.due = g.due
  BY <1>2, <1>4, <1>5, InsertAdds
<1> QED BY <1>1, <1>3, <1>4, <1>6

\* drop_task, of a task that is not running, and the start of a task.
LEMMA RemoveEffect ==
  ASSUME QueueInv, NEW t \in Waiting, heap' = Remove(heap, t)
  PROVE  IsQueue(heap', heap'.due, Waiting \ {t}) /\ heap'.due = heap.due
<1>1. IsQueue(heap, heap.due, Waiting)
  BY DEF QueueInv
<1> QED BY <1>1, RemoveTakesOut

LEMMA RescheduleEffect ==
  ASSUME QueueInv, NEW t \in Waiting, NEW d \in 0..MaxTime,
         heap' = Insert(Remove(DueAt(heap, t, d), t), t)
  PROVE  IsQueue(heap', heap'.due, Waiting) /\ heap'.due = [heap.due EXCEPT ![t] = d]
<1> DEFINE g == DueAt(heap, t, d)
           k == Remove(g, t)
<1>1. heap' = Insert(k, t)
  OBVIOUS
<1>2. heap \in Heaps /\ t \in Tasks /\ IsQueue(heap, heap.due, Waiting)
  BY QueueInvType DEF QueueInv, IsQueue
<1>3. IsQueue(g, heap.due, Waiting) /\ g.due = [heap.due EXCEPT ![t] = d]
  BY <1>2, DueAtQueue
<1>4. \A u \in Waiting \ {t} : heap.due[u] = g.due[u]
  BY <1>2, <1>3, HeapType, QueueInvType
<1> HIDE DEF g
<1>k. k = Remove(g, t)
  OBVIOUS
<1> HIDE DEF k
<1>5. /\ IsQueue(k, k.due, Waiting \ {t}) /\ k.due = g.due
      /\ Children(k, t) = None /\ NextOf(k, t) = None
  <2> DEFINE D == heap.due
  <2>1. IsQueue(g, D, Waiting) /\ \A u \in Waiting \ {t} : D[u] = g.due[u]
    BY <1>3, <1>4
  <2> HIDE DEF D
  <2> QED BY <1>k, <2>1, RemoveTakesOut
<1>6. IsQueue(heap', heap'.due, (Waiting \ {t}) \cup {t}) /\ heap'.due = k.due
  <2> DEFINE W == Waiting \ {t}
  <2>1. IsQueue(k, k.due, W) /\ t \notin W
    BY <1>5
  <2> HIDE DEF W
  <2>2. IsQueue(heap', heap'.due, W \cup {t}) /\ heap'.due = k.due
    BY ONLY <1>1, <1>2, <1>5, <2>1, InsertAdds
  <2> QED BY ONLY <2>2 DEF W
<1>7. (Waiting \ {t}) \cup {t} = Waiting
  OBVIOUS
<1> QED BY <1>3, <1>5, <1>6, <1>7

LEMMA InitQueue == Init => QueueInv
<1> SUFFICES ASSUME Init PROVE QueueInv
  OBVIOUS
<1> DEFINE P == [p \in Places |-> None]
           B == [t \in Tasks |-> NoPlace]
           D == [t \in Tasks |-> 0]
<1>1. heap = [ptr |-> P, pprev |-> B, due |-> D, bug |-> FALSE]
  BY DEF Init
<1>2. 0 \in 0..MaxTime
  BY TaskQueueAssumption
<1>3. /\ P \in [Places -> Tasks \cup {None}] /\ B \in [Tasks -> Places \cup {NoPlace}]
      /\ D \in [Tasks -> 0..MaxTime]
      /\ \A p \in Places : P[p] = None
      /\ \A t \in Tasks : B[t] = NoPlace
  BY <1>2
<1> HIDE DEF P, B, D
<1>4. heap \in Heaps /\ heap.ptr = P /\ heap.pprev = B /\ ~heap.bug
  BY <1>1, <1>3, IsHeap
<1>5. Stored(heap) = {}
  BY <1>3, <1>4 DEF Stored, Linked
<1>6. Children(heap, Root) = None /\ NextOf(heap, Root) = None
  BY <1>3, <1>4, IsPlace DEF Children, NextOf
<1>7. IsQueue(heap, heap.due, {})
  BY <1>4, <1>5, <1>6, EmptyTree DEF IsQueue
<1>8. allocated = {} /\ Waiting = {} /\ running = None
  BY DEF Init, Waiting
<1>9. RunningIsAllocated /\ TimerArmed
  BY <1>6, <1>8 DEF RunningIsAllocated, TimerArmed, First
<1>10. now \in 0..MaxTime /\ timer \in 0..Off /\ run \in 0..Off
  BY TaskQueueAssumption DEF Init, Off
<1> QED BY <1>7, <1>8, <1>9, <1>10 DEF QueueInv

\* taskqueue_schedule arms the timer for the first task.
LEMMA ScheduleArms ==
  ASSUME QueueInv, NEW h, NEW S, IsQueue(h, h.due, S)
  PROVE  /\ Schedule(h) \in 0..Off
         /\ Children(h, Root) # None => Schedule(h) <= h.due[Children(h, Root)]
<1>1. h \in Heaps
  BY DEF IsQueue
<1>2. timer \in 0..Off
  BY DEF QueueInv
<1>3. ASSUME Children(h, Root) # None
      PROVE  h.due[Children(h, Root)] \in 0..MaxTime
  <2>1. Children(h, Root) \in S /\ S \subseteq Tasks
    BY <1>3, FirstIsLeast, TreeRoot DEF IsQueue
  <2> QED BY <2>1, <1>1, HeapType
<1>4. 0..MaxTime \subseteq 0..Off /\ \A i \in 0..MaxTime : i <= i
  BY TaskQueueAssumption DEF Off
<1> QED BY <1>2, <1>3, <1>4 DEF Schedule

\* Every operation, taken by itself.
LEMMA PostQueue ==
  ASSUME QueueInv, NEW t \in Tasks, NEW d \in 0..MaxDelay, PostTask(t, d)
  PROVE  QueueInv'
<1>1. IsQueue(heap', heap'.due, Waiting')
  BY PostEffect
<1>2. timer' = Schedule(heap') /\ UNCHANGED <<now, run, running>> /\ allocated' = allocated \cup {t}
  BY DEF PostTask
<1>3. timer' \in 0..Off /\ TimerArmed'
  BY <1>1, <1>2, ScheduleArms DEF TimerArmed, First
<1>4. allocated' \subseteq Tasks /\ RunningIsAllocated'
  BY <1>2 DEF QueueInv, RunningIsAllocated
<1> QED BY <1>1, <1>2, <1>3, <1>4 DEF QueueInv

LEMMA DropQueue ==
  ASSUME QueueInv, NEW t \in Tasks, DropTask(t), t # running
  PROVE  /\ QueueInv' /\ t \in Waiting /\ Waiting' = Waiting \ {t}
         /\ heap'.due = heap.due
<1>1. /\ t \in allocated /\ allocated' = allocated \ {t} /\ timer' = Schedule(heap')
      /\ heap' = IF Linked(heap, t) THEN Remove(heap, t) ELSE heap
      /\ UNCHANGED <<now, run, running>>
  BY DEF DropTask
<1>2. t \in Waiting /\ Linked(heap, t) /\ Waiting' = Waiting \ {t}
  BY <1>1, QueueInvType DEF Waiting
<1>3. IsQueue(heap', heap'.due, Waiting') /\ heap'.due = heap.due
  BY <1>1, <1>2, RemoveEffect
<1>4. timer' \in 0..Off /\ TimerArmed'
  BY <1>1, <1>3, ScheduleArms DEF TimerArmed, First
<1>5. allocated' \subseteq Tasks /\ RunningIsAllocated'
  BY <1>1 DEF QueueInv, RunningIsAllocated
<1> QED BY <1>1, <1>2, <1>3, <1>4, <1>5 DEF QueueInv

LEMMA RescheduleQueue ==
  ASSUME QueueInv, NEW t \in Tasks, NEW d \in 0..MaxDelay, RescheduleTask(t, d),
         Linked(heap, t), heap.due[t] # now + d
  PROVE  /\ QueueInv' /\ t \in Waiting /\ Waiting' = Waiting
         /\ heap'.due = [heap.due EXCEPT ![t] = now + d]
         /\ UNCHANGED <<allocated, running>>
<1>1. /\ Linked(heap, t) /\ timer' = Schedule(heap') /\ now + d < MaxTime
      /\ UNCHANGED <<now, allocated, run, running>>
  BY DEF RescheduleTask
<1>2. heap' = Insert(Remove(DueAt(heap, t, now + d), t), t)
  BY Zenon DEF RescheduleTask, DueAt
<1>3. t \in Waiting /\ Waiting' = Waiting
  BY <1>1, QueueInvType DEF Waiting
<1>4. now + d \in 0..MaxTime
  BY <1>1, TaskQueueAssumption DEF QueueInv
<1>5. IsQueue(heap', heap'.due, Waiting') /\ heap'.due = [heap.due EXCEPT ![t] = now + d]
  BY <1>2, <1>3, <1>4, RescheduleEffect
<1>6. timer' \in 0..Off /\ TimerArmed'
  BY <1>1, <1>5, ScheduleArms DEF TimerArmed, First
<1>7. RunningIsAllocated'
  BY <1>1 DEF QueueInv, RunningIsAllocated
<1> QED BY <1>1, <1>3, <1>5, <1>6, <1>7 DEF QueueInv

LEMMA RunQueue ==
  ASSUME QueueInv, RunTask
  PROVE  /\ QueueInv' /\ First \in Waiting /\ Waiting' = Waiting \ {First}
         /\ heap'.due = heap.due
         /\ \A t \in Waiting : heap.due[First] <= heap.due[t]
<1>1. /\ run # Off /\ running = None /\ First # None /\ heap' = Remove(heap, First)
      /\ running' = First /\ UNCHANGED <<now, allocated, timer, run>>
  BY DEF RunTask, FirstIsDue
<1>2. First \in Waiting /\ \A t \in Waiting : heap.due[First] <= heap.due[t]
  BY <1>1, FirstIsLeast DEF QueueInv, First
<1>3. Waiting = allocated
  BY <1>1, NoneIsNoTask DEF Waiting, QueueInv
<1>4. Waiting' = Waiting \ {First} /\ First \in Tasks
  BY <1>1, <1>2, <1>3, QueueInvType DEF Waiting
<1> HIDE DEF First
<1>5. IsQueue(heap', heap'.due, Waiting') /\ heap'.due = heap.due
  BY <1>1, <1>2, <1>4, RemoveEffect
<1>6. TimerArmed'
  BY <1>1 DEF TimerArmed, Off
<1>7. RunningIsAllocated'
  BY <1>1, <1>2, <1>3 DEF RunningIsAllocated
<1> QED BY <1>1, <1>2, <1>4, <1>5, <1>6, <1>7 DEF QueueInv

\* The others leave the heap alone.
LEMMA OtherQueue ==
  ASSUME QueueInv, BeginRun \/ FreeTask \/ EndRun \/ Tick \/ UNCHANGED vars
  PROVE  QueueInv' /\ UNCHANGED heap /\ Waiting' = Waiting
<1>1. /\ now \in 0..MaxTime /\ allocated \subseteq Tasks
      /\ timer \in 0..Off /\ run \in 0..Off /\ running \in Tasks \cup {None}
      /\ IsQueue(heap, heap.due, Waiting) /\ RunningIsAllocated /\ TimerArmed
  BY DEF QueueInv
<1>2. CASE BeginRun
  <2>1. now' \in 0..MaxTime /\ now \in 0..Off /\ now # Off /\ timer' \in 0..Off
    BY <1>1, <1>2, TaskQueueAssumption DEF BeginRun, Off
  <2>2. run' \in 0..Off
    BY <1>2, <2>1, TaskQueueAssumption DEF BeginRun, Off
  <2>3. UNCHANGED <<heap, allocated, running>> /\ Waiting' = Waiting
    BY <1>2 DEF BeginRun, Waiting
  <2>4. TimerArmed'
    BY <1>2, <2>1, <2>3 DEF BeginRun, TimerArmed, First, Off
  <2>5. RunningIsAllocated'
    BY <1>1, <2>3 DEF RunningIsAllocated
  <2> QED BY <1>1, <2>1, <2>2, <2>3, <2>4, <2>5 DEF QueueInv
<1>3. CASE FreeTask
  <2>1. /\ running # None /\ running' = None /\ allocated' = allocated \ {running}
        /\ UNCHANGED <<now, heap, timer, run>>
    BY <1>3 DEF FreeTask
  <2>2. Waiting' = Waiting
    BY <1>1, <2>1, NoneIsNoTask DEF Waiting
  <2>3. TimerArmed' /\ RunningIsAllocated'
    BY <1>1, <2>1 DEF TimerArmed, First, RunningIsAllocated, Off
  <2> QED BY <1>1, <2>1, <2>2, <2>3 DEF QueueInv
<1>4. CASE EndRun
  <2>1. /\ run' = Off /\ timer' = Schedule(heap)
        /\ UNCHANGED <<now, heap, allocated, running>>
    BY <1>4 DEF EndRun
  <2>2. timer' \in 0..Off /\ TimerArmed'
    <3>1. /\ Schedule(heap) \in 0..Off
          /\ Children(heap, Root) # None => Schedule(heap) <= heap.due[Children(heap, Root)]
      BY <1>1, ScheduleArms
    <3> QED BY <2>1, <3>1 DEF TimerArmed, First
  <2>3. Waiting' = Waiting /\ RunningIsAllocated'
    BY <1>1, <2>1 DEF Waiting, RunningIsAllocated
  <2>4. run' \in 0..Off
    BY <2>1, TaskQueueAssumption DEF Off
  <2> QED BY <1>1, <2>1, <2>2, <2>3, <2>4 DEF QueueInv
<1>5. CASE Tick
  <2>1. now' \in 0..MaxTime /\ UNCHANGED <<heap, allocated, timer, run, running>>
    BY <1>1, <1>5, TaskQueueAssumption DEF Tick
  <2>2. Waiting' = Waiting /\ RunningIsAllocated' /\ TimerArmed'
    BY <1>1, <2>1 DEF Waiting, RunningIsAllocated, TimerArmed, First, Off
  <2> QED BY <1>1, <2>1, <2>2 DEF QueueInv
<1>6. CASE UNCHANGED vars
  <2>1. UNCHANGED <<now, heap, allocated, timer, run, running>>
    BY <1>6 DEF vars
  <2>2. Waiting' = Waiting /\ RunningIsAllocated' /\ TimerArmed'
    BY <1>1, <2>1 DEF Waiting, RunningIsAllocated, TimerArmed, First, Off
  <2> QED BY <1>1, <2>1, <2>2 DEF QueueInv
<1> QED BY <1>2, <1>3, <1>4, <1>5, <1>6

\* What may happen to the tasks that wait, and to the one that runs.
LEMMA StepCases ==
  ASSUME QueueInv, [Next]_vars
  PROVE  \/ \E t \in Tasks, d \in 0..MaxDelay : PostTask(t, d)
         \/ \E t \in Tasks : DropTask(t) /\ t # running
         \/ \E t \in Tasks, d \in 0..MaxDelay :
              RescheduleTask(t, d) /\ Linked(heap, t) /\ heap.due[t] # now + d
         \/ RunTask
         \/ FreeTask
         \/ BeginRun \/ EndRun \/ Tick
         \/ UNCHANGED vars
<1>1. ASSUME NEW t \in Tasks, DropTask(t), t = running PROVE UNCHANGED vars
  BY <1>1 DEF DropTask, vars
<1>2. ASSUME NEW t \in Tasks, NEW d \in 0..MaxDelay, RescheduleTask(t, d),
             ~(Linked(heap, t) /\ heap.due[t] # now + d)
      PROVE  UNCHANGED vars
  BY <1>2 DEF RescheduleTask, vars
<1> QED BY <1>1, <1>2 DEF Next

LEMMA NextQueue == QueueInv /\ [Next]_vars => QueueInv'
<1> SUFFICES ASSUME QueueInv, [Next]_vars PROVE QueueInv'
  OBVIOUS
<1> QED BY StepCases, PostQueue, DropQueue, RescheduleQueue, RunQueue, OtherQueue

LEMMA QueueCorrect == Spec => []QueueInv
  BY InitQueue, NextQueue, PTL DEF Spec

LEMMA HeapFromQueue == QueueInv => HeapInv
<1> SUFFICES ASSUME QueueInv PROVE HeapInv
  OBVIOUS
<1> DEFINE q == Children(heap, Root)
           S == Waiting
<1>1. /\ heap \in Heaps /\ ~heap.bug
      /\ Tree(heap.ptr, heap.pprev, heap.due, q, S)
      /\ q # None => heap.pprev[q] = <<"children", Root>> /\ NextOf(heap, q) = None
      /\ NextOf(heap, Root) = None
  BY DEF QueueInv, IsQueue
<1>2. TypeOK /\ Queued = S /\ S \subseteq Tasks
  BY QueueInvType
<1>3. (q # None => q \in S) /\ (q = None <=> S = {})
  BY <1>1, TreeRoot
<1>4. ASSUME NEW t \in S PROVE heap.ptr[heap.pprev[t]] = t
  <2>1. CASE t = q
    BY <2>1, <1>1, <1>3 DEF Children
  <2>2. CASE t # q
    BY <2>2, <1>1, TreeLinked
  <2> QED BY <2>1, <2>2
<1>5. PICK sp : Spans(heap.ptr, heap.pprev, heap.due, q, S, sp)
  BY <1>1 DEF Tree
<1>6. ASSUME NEW t \in S
      PROVE  /\ Children(heap, t) # None =>
                  /\ Children(heap, t) \in S
                  /\ heap.pprev[Children(heap, t)] = <<"children", t>>
                  /\ heap.due[t] <= heap.due[Children(heap, t)]
             /\ NextOf(heap, t) # None =>
                  /\ NextOf(heap, t) \in S
                  /\ heap.pprev[NextOf(heap, t)] = <<"next", t>>
  <2> DEFINE c == Children(heap, t)
             n == NextOf(heap, t)
  <2>1. Node(heap.ptr, heap.pprev, heap.due, S, sp, t)
    BY <1>5 DEF Spans
  <2>2. /\ c \in S \cup {None} /\ n \in S \cup {None}
        /\ c # None => heap.pprev[c] = <<"children", t>>
        /\ n # None => heap.pprev[n] = <<"next", t>>
        /\ \A u \in sp[c] : heap.due[t] <= heap.due[u]
    BY <2>1 DEF Node, Children, NextOf
  <2> HIDE DEF c, n
  <2>3. c # None => c \in S /\ c \in sp[c]
    BY <2>2, <1>5, SpanFacts
  <2>4. c # None => heap.due[t] <= heap.due[c]
    BY <2>2, <2>3
  <2> QED BY <2>2, <2>3, <2>4 DEF c, n
<1> HIDE DEF S
<1>7. ASSUME NEW p \in {"children", "next"} \X (S \cup {Root}), heap.ptr[p] # None
      PROVE  heap.ptr[p] \in S /\ heap.pprev[heap.ptr[p]] = p
  <2>1. PICK f \in {"children", "next"}, e \in S \cup {Root} : p = <<f, e>>
    OBVIOUS
  <2>2. CASE e = Root
    <3>1. f # "next"
      BY <2>1, <2>2, <1>1, <1>7 DEF NextOf
    <3>2. p = <<"children", Root>>
      BY <2>1, <2>2, <3>1
    <3>3. heap.ptr[p] = q
      BY <3>2 DEF Children
    <3> QED BY <3>2, <3>3, <1>1, <1>3, <1>7
  <2>3. CASE e \in S /\ f = "children"
    <3>1. p = <<"children", e>> /\ heap.ptr[p] = Children(heap, e)
      BY <2>1, <2>3 DEF Children
    <3> QED BY <3>1, <2>3, <1>6, <1>7
  <2>4. CASE e \in S /\ f = "next"
    <3>1. p = <<"next", e>> /\ heap.ptr[p] = NextOf(heap, e)
      BY <2>1, <2>4 DEF NextOf
    <3> QED BY <3>1, <2>4, <1>6, <1>7
  <2> QED BY <2>2, <2>3, <2>4
<1>8. \A t \in S : heap.ptr[heap.pprev[t]] = t
  BY <1>4
<1>9. \A p \in {"children", "next"} \X (S \cup {Root}) :
        heap.ptr[p] # None => heap.ptr[p] \in S /\ heap.pprev[heap.ptr[p]] = p
  BY <1>7
<1>10. \A e \in S : Children(heap, e) # None => heap.due[e] <= heap.due[Children(heap, e)]
  BY <1>6
<1> HIDE DEF q
<1> QED BY <1>1, <1>2, <1>8, <1>9, <1>10 DEF HeapInv

(***************************************************************************)
(* The pairing heap of taskqueue.c stays a heap: whatever is posted,       *)
(* dropped from the middle, rescheduled and run, in any order and by any   *)
(* number of tasks, the pointers forward and back agree, only queued tasks *)
(* are reached, no task is due before its parent, and none of the          *)
(* exit_bug conditions of taskqueue_link, taskqueue_merge and              *)
(* taskqueue_insert is met.                                                *)
(***************************************************************************)
THEOREM HeapCorrect == Spec => []HeapInv
  BY QueueCorrect, HeapFromQueue, PTL

(***************************************************************************)
(* taskqueue_run never frees a task that drop_task has freed.              *)
(***************************************************************************)
THEOREM RunningCorrect == Spec => []RunningIsAllocated
<1>1. QueueInv => RunningIsAllocated
  BY DEF QueueInv
<1> QED BY <1>1, QueueCorrect, PTL

(***************************************************************************)
(* Between two runs the timer is armed for the first task of the queue or  *)
(* for an earlier instant.                                                 *)
(***************************************************************************)
THEOREM TimerCorrect == Spec => []TimerArmed
<1>1. QueueInv => TimerArmed
  BY DEF QueueInv
<1> QED BY <1>1, QueueCorrect, PTL

-----------------------------------------------------------------------------
(* The heap implements a set of timed tasks.                               *)

Due == [t \in Queued |-> heap.due[t]]

\* The function on the pending tasks, in terms of the heap.
LEMMA DueOfQueue == QueueInv => Due = [t \in Waiting |-> heap.due[t]]
BY QueueInvType DEF Due

LEMMA TaskSetStep == QueueInv /\ QueueInv' /\ [Next]_vars => [Abstract!Next]_(Abstract!vars)
<1> SUFFICES ASSUME QueueInv, QueueInv', [Next]_vars
             PROVE  [Abstract!Next]_(Abstract!vars)
  OBVIOUS
<1>1. Due = [t \in Waiting |-> heap.due[t]] /\ Waiting \subseteq Tasks
  BY DueOfQueue, QueueInvType
<1>2. Due' = [t \in Waiting' |-> heap'.due[t]]
  <2>1. (Queued = Waiting)'
    BY QueueInvType, PTL
  <2> QED BY <2>1 DEF Due
<1>3. heap.due \in [Tasks -> 0..MaxTime]
  <2>1. heap \in Heaps
    BY DEF QueueInv, IsQueue
  <2> QED BY <2>1, HeapType
<1>4. ASSUME NEW t \in Tasks, NEW d \in 0..MaxDelay, PostTask(t, d)
      PROVE  Abstract!Next
  <2>1. /\ Waiting' = Waiting \cup {t}
        /\ heap'.due = [heap.due EXCEPT ![t] = now + d]
    BY <1>4, PostEffect
  <2>2. t \notin allocated /\ allocated' = allocated \cup {t} /\ running' = running
    BY <1>4 DEF PostTask
  <2>3. Due' = [u \in Waiting \cup {t} |-> IF u = t THEN now + d ELSE heap.due[u]]
    BY <1>1, <1>2, <1>3, <2>1
  <2>4. t \in DOMAIN Due' /\ Due'[t] = now + d
    BY <2>3
  <2>5. Due' = [u \in DOMAIN Due \cup {t} |-> IF u = t THEN Due'[t] ELSE Due[u]]
    BY <1>1, <2>3, <2>4
  <2> QED BY <2>2, <2>4, <2>5 DEF Abstract!Next, Abstract!Post, Abstract!With, Abstract!Pending, Due
<1>5. ASSUME NEW t \in Tasks, DropTask(t), t # running
      PROVE  Abstract!Next
  <2>1. t \in Waiting /\ Waiting' = Waiting \ {t} /\ heap'.due = heap.due
    BY <1>5, DropQueue
  <2>2. allocated' = allocated \ {t} /\ running' = running
    BY <1>5 DEF DropTask
  <2>3. t \in DOMAIN Due /\ Due' = [u \in DOMAIN Due \ {t} |-> Due[u]]
    BY <1>1, <1>2, <2>1
  <2> QED BY <2>2, <2>3 DEF Abstract!Next, Abstract!Drop, Abstract!Without, Abstract!Pending, Due
<1>6. ASSUME NEW t \in Tasks, NEW d \in 0..MaxDelay, RescheduleTask(t, d),
             Linked(heap, t), heap.due[t] # now + d
      PROVE  Abstract!Next
  <2>1. /\ t \in Waiting /\ Waiting' = Waiting
        /\ heap'.due = [heap.due EXCEPT ![t] = now + d]
        /\ UNCHANGED <<allocated, running>>
    BY <1>6, RescheduleQueue
  <2>2. Due' = [u \in Waiting |-> IF u = t THEN now + d ELSE heap.due[u]]
    BY <1>1, <1>2, <1>3, <2>1
  <2>3. t \in DOMAIN Due' /\ t \in DOMAIN Due /\ Due'[t] = now + d
    BY <1>1, <2>1, <2>2
  <2>4. Due' = [u \in DOMAIN Due \cup {t} |-> IF u = t THEN Due'[t] ELSE Due[u]]
    BY <1>1, <2>1, <2>2, <2>3
  <2> QED BY <2>1, <2>3, <2>4
          DEF Abstract!Next, Abstract!Reschedule, Abstract!With, Abstract!Pending, Due
<1>7. ASSUME RunTask PROVE Abstract!Next
  <2>1. /\ First \in Waiting /\ Waiting' = Waiting \ {First} /\ heap'.due = heap.due
        /\ \A t \in Waiting : heap.due[First] <= heap.due[t]
    BY <1>7, RunQueue
  <2>2. running = None /\ running' = First /\ allocated' = allocated
    BY <1>7 DEF RunTask
  <2> DEFINE f == First
  <2>3. /\ f \in Tasks /\ f \in DOMAIN Due /\ Due' = [u \in DOMAIN Due \ {f} |-> Due[u]]
        /\ \A u \in DOMAIN Due : Due[f] <= Due[u]
    BY <1>1, <1>2, <2>1
  <2>4. running' = f
    BY <2>2
  <2> HIDE DEF f
  <2> QED BY <2>2, <2>3, <2>4 DEF Abstract!Next, Abstract!Run, Abstract!Without, Abstract!Pending, Due
<1>8. ASSUME BeginRun \/ FreeTask \/ EndRun \/ Tick \/ UNCHANGED vars
      PROVE  Due' = Due
  BY <1>1, <1>2, <1>8, OtherQueue
<1>9. ASSUME FreeTask PROVE Abstract!Next
  <2>1. /\ running # None /\ running' = None /\ allocated' = allocated \ {running}
    BY <1>9 DEF FreeTask
  <2>2. running \in allocated
    BY <2>1 DEF QueueInv, RunningIsAllocated
  <2>3. Due' = Due
    BY <1>8, <1>9
  <2> QED BY <2>1, <2>2, <2>3 DEF Abstract!Next, Abstract!Return, Due
<1>10. ASSUME BeginRun \/ EndRun \/ Tick \/ UNCHANGED vars
       PROVE  UNCHANGED Abstract!vars
  <2>1. UNCHANGED <<running, allocated>>
    BY <1>10 DEF BeginRun, EndRun, Tick, vars
  <2>2. Due' = Due
    BY <1>8, <1>10
  <2> QED BY <2>1, <2>2 DEF Abstract!vars, Due
<1> QED BY <1>4, <1>5, <1>6, <1>7, <1>9, <1>10, StepCases

(***************************************************************************)
(* The pairing heap implements a set of timed tasks: every post_task,      *)
(* drop_task and reschedule_task changes that task only, and taskqueue_run *)
(* calls a task that is due first among all that are queued, once.         *)
(***************************************************************************)
THEOREM TaskSetCorrect == Spec => IsTaskSet
<1>1. Init => Abstract!Init
  <2> SUFFICES ASSUME Init PROVE Abstract!Init
    OBVIOUS
  <2>1. allocated = {} /\ running = None /\ Queued = {}
    BY DEF Init, Queued
  <2>2. [t \in Queued |-> heap.due[t]] = [t \in {} |-> 0]
    BY <2>1
  <2> QED BY <2>1, <2>2 DEF Abstract!Init
<1> QED BY <1>1, QueueCorrect, TaskSetStep, PTL DEF Spec, IsTaskSet, Abstract!Spec
=============================================================================
