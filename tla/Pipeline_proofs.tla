-------------------------- MODULE Pipeline_proofs --------------------------
(***************************************************************************)
(* The pipeline, for any routes with any guards: what is inductive about a *)
(* request, and that its properties follow.                                *)
(***************************************************************************)
EXTENDS Pipeline, SequenceTheorems, TLAPS

(* Layers that wait for Next, and all there are.                           *)
Waiting ==
  {"requestId", "logger", "recovery", "limitBody", "exceptionHandler"}
  \cup Guard
Layer == Waiting \cup {"cors", "handler", "fallback"}

(* How many layers CORS is, and the position of the exception handler.     *)
Cors == IF "cors" \in installed THEN 1 ELSE 0
Handler == 5 + Cors

(* CORS waits for nobody: of the first i layers Depth(i) wait, and the     *)
(* d-th that waits is at Position(d).                                      *)
Depth(i) == IF i < 4 THEN i ELSE i - Cors
Position(d) == IF d < 4 THEN d ELSE d + Cors

GivenInv ==
  /\ installed \subseteq Optional
  /\ route \in Requests /\ origin \in Origins(route)

StateInv ==
  /\ index \in 0 .. Len(Chain)
  /\ aborted \in BOOLEAN /\ panicking \in BOOLEAN
  /\ passed \subseteq 1 .. index
  /\ errors = <<>> \/ \E code \in 400 .. 500 : errors = <<code>>
  /\ status \in {Unsent} \cup 200 .. 500
  /\ bodies \in Nat

(* The stack is the chain, as far as it waits.                             *)
StackInv ==
  /\ stack \in Seq(Waiting)
  /\ Len(stack) <= Depth(index)
  /\ \A d \in 1 .. Len(stack) : stack[d] = Chain[Position(d)]

(* On the way in every layer has let the request go on, and nothing has    *)
(* happened to it.                                                         *)
ComingIn == ~LoopOver /\ ~panicking
InInv ==
  ComingIn =>
    /\ Len(stack) = Depth(index)
    /\ passed = 1 .. index
    /\ status = Unsent /\ bodies = 0 /\ errors = <<>> /\ records = {}

(* A panic strikes below Recovery, and in place of whatever else the layer *)
(* would have done, but for the answer of a handler.                       *)
PanicInv ==
  panicking =>
    /\ index >= 4 /\ Len(stack) >= 3
    /\ errors = <<>> /\ records = {}
    /\ \/ status = Unsent /\ bodies = 0
       \/ status = 200 /\ bodies = 1 /\ Chain[index] = "handler"

(* Who has passed CORS may be answered, and read.                          *)
CorsInv ==
  /\ index > 4 => 4 \in passed
  /\ Cors = 1 /\ 4 \in passed =>
       /\ origin # "foreign" /\ route # "preflight"
       /\ origin = "allowed" => readable

GoingOut == LoopOver /\ ~panicking
Recovered == <<"panicRecovered", 500>> \in records

(* On the way out an answer is missing only while the exception handler is *)
(* to come and has an error to render.                                     *)
OutInv ==
  GoingOut =>
    /\ index >= 4
    /\ status = Unsent =>
         Len(stack) >= 5 /\ errors # <<>> /\ bodies = 0 /\ ~Recovered
    /\ status # Unsent =>
         bodies = IF Chain[index] = "cors" /\ ~Recovered THEN 0 ELSE 1
    /\ Chain[index] = "cors" /\ ~Recovered =>
         origin = "foreign" \/ route = "preflight"

(* An error stays until the exception handler has put it on record.        *)
ErrorInv ==
  errors # <<>> =>
    /\ GoingOut /\ index > Handler
    /\ Len(stack) < 5 => <<"requestFailed", Last(errors)>> \in records

(* A failed answer has its cause on record.                                *)
CauseInv ==
  status >= 400 /\ Chain[index] \notin {"fallback", "cors"} =>
    {<<"requestFailed", status>>, <<"panicRecovered", status>>} \cap records # {}

(* The access log has written what was sent once it has returned, and      *)
(* nothing before.                                                         *)
AccessInv ==
  /\ \A code : <<"request", code>> \in records =>
       GoingOut /\ Len(stack) <= 1 /\ code = status
  /\ GoingOut /\ Len(stack) <= 1 =>
       status # Unsent /\ <<"request", status>> \in records

Inv == /\ GivenInv /\ StateInv /\ StackInv /\ InInv /\ PanicInv /\ CorsInv
       /\ OutInv /\ ErrorInv /\ CauseInv /\ AccessInv

-----------------------------------------------------------------------------
(* The chain.                                                              *)
ChainOK ==
  /\ Chain \in Seq(Layer) /\ Len(Chain) > Handler
  /\ Chain[1] = "requestId" /\ Chain[2] = "logger" /\ Chain[3] = "recovery"
  /\ Cors = 1 => Chain[4] = "cors"
  /\ Chain[4 + Cors] = "limitBody" /\ Chain[Handler] = "exceptionHandler"
  /\ \A i \in Handler + 1 .. Len(Chain) - 1 : Chain[i] \in Guard
  /\ Chain[Len(Chain)] = IF route \in Route THEN "handler" ELSE "fallback"

(* What GlobalMiddleware registers, with and without the optional layers.  *)
LEMMA LayersShape ==
  /\ Layers \in Seq(Layer) /\ Len(Layers) >= Handler
  /\ Layers[1] = "requestId" /\ Layers[2] = "logger" /\ Layers[3] = "recovery"
  /\ Cors = 1 => Layers[4] = "cors"
  /\ Layers[4 + Cors] = "limitBody" /\ Layers[Handler] = "exceptionHandler"
  /\ \A i \in Handler + 1 .. Len(Layers) : Layers[i] \in Guard
<1>1. PICK p : p = <<"requestId", "logger", "recovery">>
  OBVIOUS
<1>2. PICK q : q = IF "cors" \in installed THEN <<"cors">> ELSE <<>>
  OBVIOUS
<1>3. PICK r : r = <<"limitBody", "exceptionHandler">>
  OBVIOUS
<1>4. PICK t : t = IF "throttle" \in installed THEN <<"throttle">> ELSE <<>>
  OBVIOUS
<1>5. PICK n : n = Cors
  OBVIOUS
<1>6. n \in {0, 1}
  BY <1>5 DEF Cors
<1>7. /\ p \in Seq(Layer) /\ Len(p) = 3
      /\ p[1] = "requestId" /\ p[2] = "logger" /\ p[3] = "recovery"
  BY <1>1 DEF Layer, Waiting
<1>8. /\ q \in Seq(Layer) /\ Len(q) = n
      /\ n = 1 => q[1] = "cors"
  <2>1. CASE "cors" \in installed
    <3>1. q = <<"cors">> /\ n = 1
      BY <2>1, <1>2, <1>5 DEF Cors
    <3> QED BY <3>1 DEF Layer
  <2>2. CASE "cors" \notin installed
    <3>1. q = <<>> /\ n = 0
      BY <2>2, <1>2, <1>5 DEF Cors
    <3> QED BY <3>1
  <2> QED BY <2>1, <2>2
<1>9. /\ r \in Seq(Layer) /\ Len(r) = 2
      /\ r[1] = "limitBody" /\ r[2] = "exceptionHandler"
  BY <1>3 DEF Layer, Waiting
<1>10. /\ t \in Seq(Layer) /\ Len(t) \in {0, 1}
       /\ Len(t) = 1 => t[1] \in Guard
  <2>1. CASE "throttle" \in installed
    <3>1. t = <<"throttle">>
      BY <2>1, <1>4
    <3> QED BY <3>1 DEF Layer, Waiting, Guard
  <2>2. CASE "throttle" \notin installed
    <3>1. t = <<>>
      BY <2>2, <1>4
    <3> QED BY <3>1
  <2> QED BY <2>1, <2>2
<1> HIDE <1>1, <1>2, <1>3, <1>4
<1>11. PICK x : x = p \o q
  OBVIOUS
<1>12. /\ x \in Seq(Layer) /\ Len(x) = 3 + n
       /\ x[1] = p[1] /\ x[2] = p[2] /\ x[3] = p[3]
       /\ n = 1 => x[4] = q[1]
  <2>1. /\ p \o q \in Seq(Layer) /\ Len(p \o q) = Len(p) + Len(q)
        /\ \A i \in 1 .. Len(p) + Len(q) :
             (p \o q)[i] = IF i <= Len(p) THEN p[i] ELSE q[i - Len(p)]
    BY <1>7, <1>8, ConcatProperties
  <2> QED BY <2>1, <1>6, <1>7, <1>8, <1>11
<1>13. PICK y : y = x \o r
  OBVIOUS
<1>14. /\ y \in Seq(Layer) /\ Len(y) = 5 + n
       /\ y[1] = x[1] /\ y[2] = x[2] /\ y[3] = x[3]
       /\ n = 1 => y[4] = x[4]
       /\ y[4 + n] = r[1] /\ y[5 + n] = r[2]
  <2>1. /\ x \o r \in Seq(Layer) /\ Len(x \o r) = Len(x) + Len(r)
        /\ \A i \in 1 .. Len(x) + Len(r) :
             (x \o r)[i] = IF i <= Len(x) THEN x[i] ELSE r[i - Len(x)]
    BY <1>12, <1>9, ConcatProperties
  <2> QED BY <2>1, <1>6, <1>9, <1>12, <1>13
<1>15. PICK z : z = y \o t
  OBVIOUS
<1>16. /\ z \in Seq(Layer) /\ Len(z) = 5 + n + Len(t)
       /\ \A i \in 1 .. 5 + n : z[i] = y[i]
       /\ Len(t) = 1 => z[6 + n] = t[1]
  <2>1. /\ y \o t \in Seq(Layer) /\ Len(y \o t) = Len(y) + Len(t)
        /\ \A i \in 1 .. Len(y) + Len(t) :
             (y \o t)[i] = IF i <= Len(y) THEN y[i] ELSE t[i - Len(y)]
    BY <1>14, <1>10, ConcatProperties
  <2> QED BY <2>1, <1>6, <1>10, <1>14, <1>15
<1>17. Layers = z
  BY <1>1, <1>2, <1>3, <1>4, <1>11, <1>13, <1>15 DEF Layers
<1>18. Handler = 5 + n /\ Cors = n
  BY <1>5 DEF Handler
<1>19. \A i \in 5 + n + 1 .. Len(z) : z[i] \in Guard
  <2> TAKE i \in 5 + n + 1 .. Len(z)
  <2>1. Len(z) = 5 + n + Len(t) /\ Len(t) \in {0, 1} /\ n \in {0, 1}
    BY <1>6, <1>10, <1>16
  <2>2. i \in Int /\ 5 + n + 1 <= i /\ i <= Len(z)
    BY <2>1
  <2>3. CASE Len(t) = 0
    <3>1. Len(z) = 5 + n
      BY <2>1, <2>3
    <3> QED BY <3>1, <2>1, <2>2
  <2>4. CASE Len(t) = 1
    <3>1. Len(z) = 6 + n
      BY <2>1, <2>4
    <3>2. i = 6 + n
      BY <3>1, <2>1, <2>2
    <3> QED BY <3>2, <2>4, <1>10, <1>16
  <2> QED BY <2>1, <2>3, <2>4
<1>20. /\ z[1] = "requestId" /\ z[2] = "logger" /\ z[3] = "recovery"
       /\ n = 1 => z[4] = "cors"
       /\ z[4 + n] = "limitBody" /\ z[5 + n] = "exceptionHandler"
       /\ Len(z) >= 5 + n
  BY <1>6, <1>7, <1>8, <1>9, <1>10, <1>12, <1>14, <1>16
<1> HIDE <1>11, <1>13, <1>15
<1> QED BY <1>16, <1>17, <1>18, <1>19, <1>20

(* What a route adds ends in what answers, behind guards.                  *)
LEMMA RouteLayersShape ==
  ASSUME GivenInv
  PROVE  /\ RouteLayers \in Seq(Layer) /\ Len(RouteLayers) >= 1
         /\ \A i \in 1 .. Len(RouteLayers) - 1 : RouteLayers[i] \in Guard
         /\ RouteLayers[Len(RouteLayers)] = IF route \in Route THEN "handler" ELSE "fallback"
<1>1. CASE route \in Route
  <2>1. Guards[route] \in Seq(Guard)
    BY <1>1, PipelineAssumption
  <2>2. PICK g \in Seq(Guard) : g = Guards[route]
    BY <2>1
  <2>3. RouteLayers = Append(g, "handler")
    BY <1>1, <2>2 DEF RouteLayers
  <2>4. g \in Seq(Layer)
    BY <2>2, Guard \subseteq Layer DEF Layer, Waiting
  <2>5. "handler" \in Layer
    BY DEF Layer
  <2>6. /\ Append(g, "handler") \in Seq(Layer)
        /\ Len(Append(g, "handler")) = Len(g) + 1
        /\ \A i \in 1 .. Len(g) : Append(g, "handler")[i] = g[i]
        /\ Append(g, "handler")[Len(g) + 1] = "handler"
    BY <2>4, <2>5, AppendProperties
  <2>7. \A i \in 1 .. Len(g) : g[i] \in Guard
    BY <2>2
  <2>8. Len(g) \in Nat
    BY <2>2
  <2> QED BY <1>1, <2>3, <2>6, <2>7, <2>8
<1>2. CASE route \notin Route
  <2>1. RouteLayers = <<"fallback">>
    BY <1>2 DEF RouteLayers
  <2> QED BY <1>2, <2>1 DEF Layer
<1> QED BY <1>1, <1>2

LEMMA ChainShape == GivenInv => ChainOK
<1> SUFFICES ASSUME GivenInv PROVE ChainOK
  OBVIOUS
<1>1. PICK a : a = Layers
  OBVIOUS
<1>2. PICK b : b = RouteLayers
  OBVIOUS
<1>3. PICK h : h = Handler
  OBVIOUS
<1>4. h \in {5, 6} /\ Cors = h - 5
  BY <1>3 DEF Handler, Cors
<1>5. /\ a \in Seq(Layer) /\ Len(a) >= h
      /\ a[1] = "requestId" /\ a[2] = "logger" /\ a[3] = "recovery"
      /\ Cors = 1 => a[4] = "cors"
      /\ a[h - 1] = "limitBody" /\ a[h] = "exceptionHandler"
      /\ \A i \in h + 1 .. Len(a) : a[i] \in Guard
  BY <1>1, <1>3, <1>4, LayersShape
<1>6. /\ b \in Seq(Layer) /\ Len(b) >= 1
      /\ \A i \in 1 .. Len(b) - 1 : b[i] \in Guard
      /\ b[Len(b)] = IF route \in Route THEN "handler" ELSE "fallback"
  BY <1>2, RouteLayersShape
<1>7. Chain = a \o b
  BY <1>1, <1>2 DEF Chain
<1>8. /\ a \o b \in Seq(Layer)
      /\ Len(a \o b) = Len(a) + Len(b)
      /\ \A i \in 1 .. Len(a) + Len(b) :
           (a \o b)[i] = IF i <= Len(a) THEN a[i] ELSE b[i - Len(a)]
  BY <1>5, <1>6, ConcatProperties
<1>9. PICK c : c = a \o b
  OBVIOUS
<1>10. Len(a) \in Nat /\ Len(b) \in Nat
  BY <1>5, <1>6
<1>11. /\ c \in Seq(Layer) /\ Len(c) = Len(a) + Len(b)
       /\ \A i \in 1 .. Len(a) : c[i] = a[i]
       /\ \A i \in Len(a) + 1 .. Len(c) : c[i] = b[i - Len(a)]
  BY <1>8, <1>9, <1>10
<1>12. \A i \in h + 1 .. Len(c) - 1 : c[i] \in Guard
  <2> TAKE i \in h + 1 .. Len(c) - 1
  <2>1. CASE i <= Len(a)
    <3>1. i \in 1 .. Len(a) /\ i \in h + 1 .. Len(a)
      BY <2>1, <1>4, <1>10, <1>11
    <3> QED BY <3>1, <1>5, <1>11
  <2>2. CASE i > Len(a)
    <3>1. i \in Len(a) + 1 .. Len(c) /\ i - Len(a) \in 1 .. Len(b) - 1
      BY <2>2, <1>4, <1>10, <1>11
    <3> QED BY <3>1, <1>6, <1>11
  <2> QED BY <2>1, <2>2, <1>4, <1>10
<1>13. c[Len(c)] = b[Len(b)]
  <2>1. Len(c) \in Len(a) + 1 .. Len(c) /\ Len(c) - Len(a) = Len(b)
    BY <1>6, <1>10, <1>11
  <2> QED BY <2>1, <1>11
<1>14. /\ c[1] = a[1] /\ c[2] = a[2] /\ c[3] = a[3] /\ c[4] = a[4]
       /\ c[h - 1] = a[h - 1] /\ c[h] = a[h]
  <2>1. Len(a) >= h /\ h \in {5, 6} /\ Len(a) \in Nat
    BY <1>4, <1>5, <1>10
  <2>2. {1, 2, 3, 4, h - 1, h} \subseteq 1 .. Len(a)
    BY <2>1
  <2> QED BY <2>2, <1>11
<1>15. Len(c) > h
  BY <1>4, <1>5, <1>6, <1>10, <1>11
<1>16. Chain = c /\ Handler = h /\ 4 + Cors = h - 1
  BY <1>3, <1>4, <1>7, <1>9
<1>17. c \in Seq(Layer)
  BY <1>11
<1> HIDE <1>1, <1>2, <1>9
<1> QED BY <1>5, <1>6, <1>12, <1>13, <1>14, <1>15, <1>16, <1>17 DEF ChainOK

(* Where in the chain a layer is.                                          *)
LEMMA Places ==
  ASSUME ChainOK, NEW i \in 1 .. Len(Chain)
  PROVE  /\ Chain[i] = "requestId" <=> i = 1
         /\ Chain[i] = "logger" <=> i = 2
         /\ Chain[i] = "recovery" <=> i = 3
         /\ Chain[i] = "cors" <=> Cors = 1 /\ i = 4
         /\ Chain[i] = "limitBody" <=> i = 4 + Cors
         /\ Chain[i] = "exceptionHandler" <=> i = Handler
         /\ Chain[i] \in Guard <=> i > Handler /\ i < Len(Chain)
         /\ Chain[i] \in {"handler", "fallback"} <=> i = Len(Chain)
         /\ Chain[i] \in Layer
<1>1. Cors \in {0, 1} /\ Handler = 5 + Cors
  BY DEF Cors, Handler
<1>2. Len(Chain) \in Nat /\ Chain[i] \in Layer
  BY DEF ChainOK
<1>3. i \in {1, 2, 3} \/ (Cors = 1 /\ i = 4) \/ i = 4 + Cors \/ i = Handler
      \/ i \in Handler + 1 .. Len(Chain) - 1 \/ i = Len(Chain)
  BY <1>1, <1>2
<1>4. i \in Handler + 1 .. Len(Chain) - 1 => Chain[i] \in Guard
  BY DEF ChainOK
<1>5. /\ Chain[1] = "requestId" /\ Chain[2] = "logger" /\ Chain[3] = "recovery"
      /\ Cors = 1 => Chain[4] = "cors"
      /\ Chain[4 + Cors] = "limitBody" /\ Chain[Handler] = "exceptionHandler"
      /\ Chain[Len(Chain)] \in {"handler", "fallback"}
      /\ Len(Chain) > Handler
  BY DEF ChainOK
<1> QED BY <1>1, <1>2, <1>3, <1>4, <1>5 DEF Guard

LEMMA ChainKept ==
  ASSUME UNCHANGED given
  PROVE  Chain' = Chain /\ Cors' = Cors /\ Handler' = Handler
BY DEF given, Chain, Layers, RouteLayers, Cors, Handler


-----------------------------------------------------------------------------
(* The way in.                                                             *)
LEMMA InitInv == Init => Inv
<1> SUFFICES ASSUME Init PROVE Inv
  OBVIOUS
<1>1. GivenInv
  BY DEF Init, GivenInv
<1>2. ChainOK
  BY <1>1, ChainShape
<1>3. Len(Chain) \in Nat /\ Len(Chain) > 5 /\ Cors \in {0, 1}
  BY <1>2 DEF ChainOK, Handler, Cors
<1>4. /\ index = 0 /\ aborted = FALSE /\ stack = <<>> /\ panicking = FALSE
      /\ passed = {} /\ errors = <<>> /\ records = {}
      /\ status = 0 /\ bodies = 0
  BY DEF Init, Unsent
<1>5. StateInv
  <2>1. errors = <<>> /\ status \in {Unsent} /\ bodies \in Nat
    BY <1>4 DEF Unsent
  <2>2. index \in 0 .. Len(Chain) /\ passed \subseteq 1 .. index
    BY <1>3, <1>4
  <2> QED BY <1>4, <2>1, <2>2 DEF StateInv
<1>6. StackInv
  BY <1>4 DEF StackInv, Depth
<1>7. InInv
  BY <1>4 DEF InInv, Depth, Unsent
<1>8. PanicInv /\ OutInv /\ AccessInv
  BY <1>3, <1>4 DEF PanicInv, OutInv, AccessInv, GoingOut, LoopOver
<1>9. CorsInv /\ ErrorInv /\ CauseInv
  BY <1>4 DEF CorsInv, ErrorInv, CauseInv
<1> QED BY <1>1, <1>5, <1>6, <1>7, <1>8, <1>9 DEF Inv

(* What gin and the layers before l have left when the loop calls l.       *)
LEMMA CalledFacts ==
  ASSUME Inv, NEW l, Called(l)
  PROVE  /\ ChainOK /\ Chain' = Chain /\ Cors' = Cors /\ Handler' = Handler
         /\ GivenInv'
         /\ index \in Nat /\ index' = index + 1
         /\ index' \in 1 .. Len(Chain) /\ Chain[index'] = l
         /\ stack \in Seq(Waiting) /\ Len(stack) = Depth(index)
         /\ passed = 1 .. index /\ status = Unsent /\ bodies = 0
         /\ errors = <<>> /\ records = {} /\ ~panicking /\ ~aborted
<1>1. ChainOK
  BY ChainShape DEF Inv
<1>2. Chain' = Chain /\ Cors' = Cors /\ Handler' = Handler
  BY ChainKept DEF Called
<1>3. GivenInv'
  BY DEF Inv, GivenInv, Called, given
<1>4. ComingIn /\ index' = index + 1 /\ Chain[index + 1] = l
  BY DEF Called, ComingIn
<1>5. index \in 0 .. Len(Chain) /\ index # Len(Chain) /\ Len(Chain) \in Nat
  BY <1>1, <1>4 DEF Inv, StateInv, ComingIn, LoopOver, ChainOK
<1>6. index \in Nat /\ index' \in 1 .. Len(Chain)
  BY <1>4, <1>5
<1> QED BY <1>1, <1>2, <1>3, <1>4, <1>6
        DEF Inv, InInv, StackInv, ComingIn, LoopOver

(* Its own place in the chain is where a layer will be on the stack.       *)
LEMMA DepthFacts ==
  ASSUME ChainOK, NEW i \in 1 .. Len(Chain), Chain[i] # "cors"
  PROVE  /\ Depth(i - 1) \in Nat /\ Depth(i) = Depth(i - 1) + 1
         /\ Position(Depth(i)) = i
<1>1. Cors \in {0, 1} /\ Len(Chain) \in Nat
  BY DEF Cors, ChainOK
<1>2. Cors = 1 => i # 4
  BY DEF ChainOK
<1> QED BY <1>1, <1>2 DEF Depth, Position

(* A layer that waits for Next.                                            *)
LEMMA GoesOn ==
  ASSUME Inv, NEW l \in Waiting, Called(l), CallsNext(l),
         UNCHANGED <<errors, reply, records>>
  PROVE  Inv'
<1>1. /\ ChainOK /\ Chain' = Chain /\ Cors' = Cors /\ Handler' = Handler
      /\ GivenInv'
      /\ index \in Nat /\ index' = index + 1
      /\ index' \in 1 .. Len(Chain) /\ Chain[index'] = l
      /\ stack \in Seq(Waiting) /\ Len(stack) = Depth(index)
      /\ passed = 1 .. index /\ status = Unsent /\ bodies = 0
      /\ errors = <<>> /\ records = {} /\ ~panicking /\ ~aborted
  BY CalledFacts
<1>2. /\ stack' = Append(stack, l) /\ passed' = passed \cup {index'}
      /\ aborted' = FALSE /\ panicking' = FALSE
      /\ errors' = <<>> /\ records' = {}
      /\ status' = Unsent /\ bodies' = 0 /\ readable' = readable
      /\ UNCHANGED given
  BY <1>1 DEF CallsNext, reply, Called, Inv, StateInv
<1>3. passed' = 1 .. index'
  BY <1>1, <1>2
<1>4. l # "cors" /\ l \notin {"handler", "fallback"}
  BY DEF Waiting, Guard
<1>5. /\ Depth(index) \in Nat /\ Depth(index + 1) = Depth(index) + 1
      /\ Position(Depth(index + 1)) = index + 1
  <2>1. index + 1 \in 1 .. Len(Chain) /\ Chain[index + 1] # "cors"
        /\ (index + 1) - 1 = index
    BY <1>1, <1>4
  <2>2. PICK i \in 1 .. Len(Chain) : i = index + 1
    BY <2>1
  <2> QED BY <2>1, <2>2, <1>1, DepthFacts
<1>6. index' # Len(Chain)
  BY <1>1, <1>4 DEF ChainOK
<1>7. ComingIn' /\ ~GoingOut'
  BY <1>1, <1>2, <1>6 DEF ComingIn, GoingOut, LoopOver
<1>8. /\ stack' \in Seq(Waiting) /\ Len(stack') = Len(stack) + 1
      /\ \A d \in 1 .. Len(stack) : stack'[d] = stack[d]
      /\ stack'[Len(stack) + 1] = l
  BY <1>1, <1>2, AppendProperties
<1>9. Depth(index)' = Depth(index')
  BY <1>1 DEF Depth
<1>10. StackInv'
  <2>1. Len(stack') = Depth(index') /\ Len(stack) \in Nat
    BY <1>1, <1>5, <1>8
  <2>2. \A d \in 1 .. Len(stack') : stack'[d] = Chain[Position(d)]
    <3> TAKE d \in 1 .. Len(stack')
    <3>1. CASE d \in 1 .. Len(stack)
      BY <3>1, <1>8 DEF Inv, StackInv
    <3>2. CASE d = Len(stack) + 1
      BY <3>2, <1>1, <1>5, <1>8
    <3> QED BY <3>1, <3>2, <2>1, <1>8
  <2>3. \A d : Position(d)' = Position(d)
    BY <1>1 DEF Position
  <2> QED BY <1>1, <1>8, <1>9, <2>1, <2>2, <2>3 DEF StackInv
<1>11. StateInv'
  <2>1. index' \in 0 .. Len(Chain) /\ passed' \subseteq 1 .. index'
    BY <1>1, <1>3
  <2>2. errors' = <<>> /\ status' \in {Unsent} /\ bodies' \in Nat
    BY <1>2
  <2> QED BY <1>1, <1>2, <2>1, <2>2 DEF StateInv
<1>12. InInv'
  BY <1>1, <1>2, <1>3, <1>5, <1>8, <1>9 DEF InInv, Unsent
<1>13. PanicInv' /\ OutInv' /\ ErrorInv' /\ AccessInv'
  BY <1>2, <1>7 DEF PanicInv, OutInv, ErrorInv, AccessInv
<1>14. CorsInv'
  <2>1. index' > 4 => 4 \in passed'
    BY <1>1, <1>3
  <2>2. Cors = 1 /\ 4 \in passed' => 4 \in passed
    BY <1>1, <1>2, <1>4 DEF ChainOK
  <2>3. CorsInv
    BY DEF Inv
  <2> QED BY <1>1, <1>2, <2>1, <2>2, <2>3 DEF CorsInv, given
<1>15. CauseInv'
  BY <1>2 DEF CauseInv, Unsent
<1> QED BY <1>1, <1>10, <1>11, <1>12, <1>13, <1>14, <1>15 DEF Inv


(* A call that pushes nothing.                                             *)
LEMMA StackStays ==
  ASSUME Inv, NEW l, Called(l), stack' = stack
  PROVE  StackInv'
<1>1. /\ Chain' = Chain /\ Cors' = Cors /\ index \in Nat /\ index' = index + 1
      /\ stack \in Seq(Waiting) /\ Len(stack) = Depth(index)
  BY CalledFacts
<1>2. Depth(index) <= Depth(index + 1)
  <2>1. Cors \in {0, 1}
    BY DEF Cors
  <2> QED BY <2>1, <1>1 DEF Depth
<1>3. Depth(index)' = Depth(index + 1)
  BY <1>1 DEF Depth
<1>4. \A d : Position(d)' = Position(d)
  BY <1>1 DEF Position
<1>5. Depth(index) \in Int /\ Depth(index + 1) \in Int
  BY <1>1 DEF Depth, Cors
<1> QED BY <1>1, <1>2, <1>3, <1>4, <1>5 DEF StackInv, Inv

(* A guard, a handler or a fallback that ends the chain: it has reported   *)
(* an error or answered, with a failure only if it is a fallback.          *)
LEMMA EndsChain ==
  ASSUME Inv, NEW l \in Guard \cup {"handler", "fallback"}, Called(l),
         UNCHANGED <<stack, panicking, passed, readable, records>>,
         aborted' \in BOOLEAN, aborted' \/ l \in {"handler", "fallback"},
         errors' = <<>> \/ \E code \in 400 .. 500 : errors' = <<code>>,
         \/ status' = Unsent /\ bodies' = 0 /\ errors' # <<>>
         \/ status' \in 200 .. 500 /\ bodies' = 1
            /\ (status' >= 400 => l = "fallback")
  PROVE  Inv'
<1>1. /\ ChainOK /\ Chain' = Chain /\ Cors' = Cors /\ Handler' = Handler
      /\ GivenInv'
      /\ index \in Nat /\ index' = index + 1
      /\ index' \in 1 .. Len(Chain) /\ Chain[index'] = l
      /\ stack \in Seq(Waiting) /\ Len(stack) = Depth(index)
      /\ passed = 1 .. index /\ status = Unsent /\ bodies = 0
      /\ errors = <<>> /\ records = {} /\ ~panicking /\ ~aborted
  BY CalledFacts
<1>2. /\ Cors \in {0, 1} /\ Handler = 5 + Cors /\ Len(Chain) \in Nat
      /\ Len(Chain) > Handler
  BY <1>1 DEF Cors, Handler, ChainOK
<1>3. /\ index' > Handler
      /\ l \in {"handler", "fallback"} => index' = Len(Chain)
  <2>1. PICK i \in 1 .. Len(Chain) : i = index'
    BY <1>1
  <2>2. /\ Chain[i] \in Guard <=> i > Handler /\ i < Len(Chain)
        /\ Chain[i] \in {"handler", "fallback"} <=> i = Len(Chain)
    BY <1>1, Places
  <2> QED BY <1>1, <1>2, <2>1, <2>2
<1>4. UNCHANGED <<origin, route, installed>>
  BY DEF Called, given
<1>5. index >= 5 + Cors /\ Len(stack) >= 5 /\ Len(stack) \in Nat
  <2>1. index >= 5 + Cors
    BY <1>1, <1>2, <1>3
  <2>2. Depth(index) = index - Cors
    BY <2>1, <1>1, <1>2 DEF Depth
  <2> QED BY <1>1, <1>2, <2>1, <2>2
<1>6. GoingOut' /\ ~ComingIn'
  BY <1>1, <1>3 DEF GoingOut, ComingIn, LoopOver
<1>7. l # "cors"
  BY DEF Guard
<1>8. StateInv'
  <2>1. index' \in 0 .. Len(Chain) /\ passed' \subseteq 1 .. index'
    BY <1>1
  <2>2. status' \in {Unsent} \cup 200 .. 500 /\ bodies' \in Nat
    OBVIOUS
  <2>3. panicking' \in BOOLEAN
    BY <1>1 DEF Inv, StateInv
  <2>4. Chain' = Chain
    BY <1>1
  <2> QED BY <2>1, <2>2, <2>3, <2>4 DEF StateInv
<1>9. StackInv'
  BY StackStays
<1>10. InInv' /\ PanicInv'
  BY <1>1, <1>6 DEF InInv, PanicInv
<1>11. CorsInv'
  <2>1. 4 \in passed
    BY <1>1, <1>2, <1>5
  <2> QED BY <1>1, <1>4, <2>1 DEF CorsInv, Inv
<1>12. OutInv'
  <2>1. index' >= 4
    BY <1>1, <1>2, <1>5
  <2>2. Recovered' = FALSE
    BY <1>1 DEF Recovered
  <2>3. status' = Unsent => errors' # <<>> /\ bodies' = 0
    BY DEF Unsent
  <2>4. status' # Unsent => bodies' = 1
    OBVIOUS
  <2> QED BY <1>1, <1>5, <1>7, <2>1, <2>2, <2>3, <2>4 DEF OutInv
<1>13. ErrorInv'
  BY <1>1, <1>3, <1>5, <1>6 DEF ErrorInv
<1>14. CauseInv'
  <2>1. status' >= 400 => l = "fallback"
    BY DEF Unsent
  <2> QED BY <1>1, <2>1 DEF CauseInv
<1>15. AccessInv'
  BY <1>1, <1>5 DEF AccessInv
<1> QED BY <1>1, <1>8, <1>9, <1>10, <1>11, <1>12, <1>13, <1>14, <1>15 DEF Inv

LEMMA CorsPassesInv ==
  ASSUME Inv, CorsPasses
  PROVE  Inv'
<1> DEFINE l == "cors"
<1>1. /\ ChainOK /\ Chain' = Chain /\ Cors' = Cors /\ Handler' = Handler
      /\ GivenInv'
      /\ index \in Nat /\ index' = index + 1
      /\ index' \in 1 .. Len(Chain) /\ Chain[index'] = l
      /\ stack \in Seq(Waiting) /\ Len(stack) = Depth(index)
      /\ passed = 1 .. index /\ status = Unsent /\ bodies = 0
      /\ errors = <<>> /\ records = {} /\ ~panicking /\ ~aborted
  BY CalledFacts DEF CorsPasses
<1>2. Cors = 1 /\ index' = 4
  <2>1. PICK i \in 1 .. Len(Chain) : i = index'
    BY <1>1
  <2>2. Chain[i] = "cors" <=> Cors = 1 /\ i = 4
    BY <1>1, Places
  <2> QED BY <1>1, <2>1, <2>2
<1>3. /\ passed' = passed \cup {index'} /\ readable' = (origin = "allowed")
      /\ origin # "foreign" /\ (origin = "allowed" => route # "preflight")
      /\ UNCHANGED <<aborted, stack, panicking, errors, status, bodies, records>>
      /\ UNCHANGED given
  BY DEF CorsPasses, Called
<1>4. passed' = 1 .. index'
  BY <1>1, <1>3
<1>5. origin \in {"none", "allowed", "foreign"} /\ (route = "preflight" => origin # "none")
  BY DEF Inv, GivenInv, Origins
<1>6. index' # Len(Chain) /\ Len(Chain) \in Nat
  BY <1>1, <1>2 DEF ChainOK, Handler
<1>7. ComingIn' /\ ~GoingOut'
  BY <1>1, <1>3, <1>6 DEF ComingIn, GoingOut, LoopOver
<1>8. StateInv'
  <2>1. index' \in 0 .. Len(Chain) /\ passed' \subseteq 1 .. index'
    BY <1>1, <1>4
  <2>2. errors' = <<>> /\ status' \in {Unsent} /\ bodies' \in Nat
    BY <1>1, <1>3
  <2>3. aborted' = FALSE /\ panicking' = FALSE
    BY <1>1, <1>3 DEF Inv, StateInv
  <2> QED BY <1>1, <2>1, <2>2, <2>3 DEF StateInv
<1>9. StackInv'
  BY <1>3, StackStays DEF CorsPasses
<1>10. InInv'
  <2>1. Depth(index)' = Depth(index)
    BY <1>1, <1>2 DEF Depth
  <2> QED BY <1>1, <1>3, <1>4, <2>1 DEF InInv, Unsent
<1>11. PanicInv' /\ OutInv' /\ ErrorInv' /\ AccessInv'
  BY <1>1, <1>3, <1>7 DEF PanicInv, OutInv, ErrorInv, AccessInv
<1>12. CorsInv'
  BY <1>2, <1>3, <1>5 DEF CorsInv, given
<1>13. CauseInv'
  BY <1>1, <1>3 DEF CauseInv, Unsent
<1> QED BY <1>1, <1>8, <1>9, <1>10, <1>11, <1>12, <1>13 DEF Inv

LEMMA CorsAnswersInv ==
  ASSUME Inv, CorsAnswers
  PROVE  Inv'
<1> DEFINE l == "cors"
<1>1. /\ ChainOK /\ Chain' = Chain /\ Cors' = Cors /\ Handler' = Handler
      /\ GivenInv'
      /\ index \in Nat /\ index' = index + 1
      /\ index' \in 1 .. Len(Chain) /\ Chain[index'] = l
      /\ stack \in Seq(Waiting) /\ Len(stack) = Depth(index)
      /\ passed = 1 .. index /\ status = Unsent /\ bodies = 0
      /\ errors = <<>> /\ records = {} /\ ~panicking /\ ~aborted
  BY CalledFacts DEF CorsAnswers
<1>2. Cors = 1 /\ index' = 4 /\ index = 3
  <2>1. PICK i \in 1 .. Len(Chain) : i = index'
    BY <1>1
  <2>2. Chain[i] = "cors" <=> Cors = 1 /\ i = 4
    BY <1>1, Places
  <2> QED BY <1>1, <2>1, <2>2
<1>3. /\ aborted' = TRUE /\ status' \in {403, 204}
      /\ origin = "foreign" \/ route = "preflight"
      /\ UNCHANGED <<stack, panicking, passed, errors, bodies, records>>
      /\ UNCHANGED given
  BY DEF CorsAnswers, Called, Leaves
<1>4. Len(stack) = 3
  BY <1>1, <1>2 DEF Depth
<1>5. GoingOut' /\ ~ComingIn'
  BY <1>1, <1>3 DEF ComingIn, GoingOut, LoopOver
<1>6. status' # Unsent /\ status' \in 200 .. 500 /\ bodies' = 0
  BY <1>1, <1>3 DEF Unsent
<1>7. StateInv'
  <2>1. index' \in 0 .. Len(Chain) /\ passed' \subseteq 1 .. index'
    BY <1>1, <1>3
  <2>2. errors' = <<>> /\ bodies' \in Nat /\ panicking' = FALSE
    BY <1>1, <1>3
  <2> QED BY <1>1, <1>3, <1>6, <2>1, <2>2 DEF StateInv
<1>8. StackInv'
  BY <1>3, StackStays DEF CorsAnswers
<1>9. InInv' /\ PanicInv' /\ ErrorInv'
  BY <1>1, <1>3, <1>5 DEF InInv, PanicInv, ErrorInv
<1>10. CorsInv'
  BY <1>1, <1>2, <1>3 DEF CorsInv
<1>11. OutInv'
  <2>1. Recovered' = FALSE
    BY <1>1, <1>3 DEF Recovered
  <2>2. UNCHANGED <<origin, route>>
    BY <1>3 DEF given
  <2> QED BY <1>1, <1>2, <1>3, <1>6, <2>1, <2>2 DEF OutInv
<1>12. CauseInv'
  BY <1>1 DEF CauseInv
<1>13. AccessInv'
  <2>1. records' = {}
    BY <1>1, <1>3
  <2>2. Len(stack') = 3
    BY <1>3, <1>4
  <2>3. ~(Len(stack') <= 1)
    BY <2>2
  <2> QED BY <2>1, <2>3 DEF AccessInv
<1> QED BY <1>1, <1>7, <1>8, <1>9, <1>10, <1>11, <1>12, <1>13 DEF Inv


(* Only routes have a handler.                                             *)
LEMMA HandlerHasRoute ==
  ASSUME Inv, Called("handler")
  PROVE  route \in Route
<1>1. /\ ChainOK /\ GivenInv /\ index' \in 1 .. Len(Chain)
      /\ Chain[index'] = "handler"
  BY CalledFacts DEF Inv
<1>2. PICK i \in 1 .. Len(Chain) : i = index'
  BY <1>1
<1>3. i = Len(Chain)
  BY <1>1, <1>2, Places
<1> QED BY <1>1, <1>2, <1>3 DEF ChainOK

(* What a waiting layer's place on the stack says of its place in the chain. *)
LEMMA PositionInChain ==
  ASSUME Inv, ChainOK, NEW d \in 1 .. Len(stack)
  PROVE  Position(d) \in 1 .. Len(Chain)
<1>1. Cors \in {0, 1} /\ Len(Chain) \in Nat /\ index \in 0 .. Len(Chain)
  BY DEF Cors, ChainOK, Inv, StateInv
<1>2. Len(stack) \in Nat /\ Len(stack) <= Depth(index)
  BY DEF Inv, StackInv
<1>3. d \in Nat /\ d >= 1 /\ d <= Depth(index)
  BY <1>1, <1>2 DEF Depth
<1> QED BY <1>1, <1>3 DEF Position, Depth

(* The actions that end the chain.                                         *)
LEMMA GuardRejectsInv ==
  ASSUME Inv, NEW l, GuardRejects(l)
  PROVE  Inv'
<1>1. l \in Guard /\ Called(l)
  BY DEF GuardRejects
<1>2. errors = <<>> /\ status = Unsent /\ bodies = 0
  BY <1>1, CalledFacts
<1>3. /\ aborted' = TRUE
      /\ UNCHANGED <<stack, panicking, passed, readable, records, status, bodies>>
  BY DEF GuardRejects, Leaves, reply
<1>4. \E code \in 400 .. 500 : errors' = <<code>>
  BY <1>2 DEF GuardRejects
<1>5. errors' # <<>>
  BY <1>4
<1> QED BY <1>1, <1>2, <1>3, <1>4, <1>5, EndsChain

LEMMA HandlerInv ==
  ASSUME Inv, HandlerSucceeds \/ HandlerUnheard \/ HandlerFails
  PROVE  Inv'
<1>1. Called("handler")
  BY DEF HandlerSucceeds, HandlerUnheard, HandlerFails
<1>2. errors = <<>> /\ status = Unsent /\ bodies = 0 /\ ~aborted
  BY <1>1, CalledFacts
<1>3. /\ aborted' \in BOOLEAN
      /\ UNCHANGED <<stack, panicking, passed, readable, records>>
  <2>1. Leaves(FALSE) \/ Leaves(TRUE)
    BY DEF HandlerSucceeds, HandlerUnheard, HandlerFails
  <2>2. UNCHANGED <<readable, records>>
    BY DEF HandlerSucceeds, HandlerUnheard, HandlerFails, Send, reply
  <2>3. aborted = FALSE
    BY <1>2 DEF Inv, StateInv
  <2> QED BY <2>1, <2>2, <2>3 DEF Leaves
<1>4. CASE HandlerSucceeds
  <2>1. status' = 200 /\ bodies' = 1 /\ errors' = <<>>
    BY <1>2, <1>4 DEF HandlerSucceeds, Send
  <2> QED BY <1>1, <1>3, <2>1, EndsChain
<1>5. CASE HandlerUnheard
  <2>1. status' = 200 /\ bodies' = 1 /\ errors' = <<500>>
    BY <1>2, <1>5 DEF HandlerUnheard, Send
  <2> QED BY <1>1, <1>3, <2>1, EndsChain
<1>6. CASE HandlerFails
  <2>1. Chain[index'] = "handler" /\ ChainOK /\ GivenInv /\ UNCHANGED <<status, bodies>>
    BY <1>1, <1>6, CalledFacts DEF HandlerFails, reply, Inv
  <2>2. PICK code \in Failures[route] : errors' = <<code>>
    BY <1>2, <1>6 DEF HandlerFails
  <2>3. route \in Route
    BY <1>1, HandlerHasRoute DEF Inv
  <2>4. code \in 400 .. 500
    BY <2>2, <2>3, PipelineAssumption
       DEF Reportable, BindErrors, DatabaseErrors
  <2>5. errors' # <<>>
    BY <2>2
  <2> QED BY <1>1, <1>2, <1>3, <2>1, <2>2, <2>4, <2>5, EndsChain
<1> QED BY <1>4, <1>5, <1>6

LEMMA FallbackInv ==
  ASSUME Inv, Fallback
  PROVE  Inv'
<1>1. Called("fallback")
  BY DEF Fallback
<1>2. errors = <<>> /\ status = Unsent /\ bodies = 0
  BY <1>1, CalledFacts
<1>3. /\ aborted' = TRUE /\ status' \in {404, 405} /\ bodies' = 1
      /\ UNCHANGED <<stack, panicking, passed, readable, records>>
  <2>1. PICK code \in {404, 405} : Send(code, 1)
    BY DEF Fallback
  <2>2. status' = code /\ bodies' = bodies + 1 /\ readable' = readable
    BY <1>2, <2>1 DEF Send
  <2>3. aborted' = TRUE /\ UNCHANGED <<stack, panicking, passed, records>>
    BY DEF Fallback, Leaves
  <2>4. status' \in {404, 405}
    BY <2>2
  <2>5. bodies' = 1
    BY <1>2, <2>2
  <2> QED BY <2>2, <2>3, <2>4, <2>5
<1>4. errors' = <<>> \/ errors' = <<500>>
  BY <1>2 DEF Fallback
<1> QED BY <1>1, <1>3, <1>4, EndsChain

(* A panic: whatever was called is taken back by Recovery.                 *)
LEMMA PanicsInv ==
  ASSUME Inv, Panics
  PROVE  Inv'
<1>1. PICK l \in {"cors", "limitBody", "exceptionHandler", "throttle",
                  "authenticate", "handler", "fallback"} :
        /\ Called(l)
        /\ UNCHANGED reply \/ (l = "handler" /\ Send(200, 1))
  BY DEF Panics
<1>2. /\ ChainOK /\ Chain' = Chain /\ Cors' = Cors /\ Handler' = Handler
      /\ GivenInv'
      /\ index \in Nat /\ index' = index + 1
      /\ index' \in 1 .. Len(Chain) /\ Chain[index'] = l
      /\ stack \in Seq(Waiting) /\ Len(stack) = Depth(index)
      /\ passed = 1 .. index /\ status = Unsent /\ bodies = 0
      /\ errors = <<>> /\ records = {} /\ ~panicking /\ ~aborted
  BY <1>1, CalledFacts
<1>3. /\ panicking' = TRUE
      /\ UNCHANGED <<aborted, stack, passed, errors, records>>
      /\ UNCHANGED given
      /\ readable' = readable
      /\ \/ status' = Unsent /\ bodies' = 0
         \/ status' = 200 /\ bodies' = 1 /\ l = "handler"
  BY <1>1, <1>2 DEF Panics, Called, Send, reply
<1>4. index' >= 4
  BY <1>1, <1>2 DEF ChainOK
<1>5. Len(stack) >= 3 /\ Len(stack) \in Nat
  <2>1. Cors \in {0, 1} /\ index >= 3
    BY <1>2, <1>4 DEF Cors
  <2> QED BY <1>2, <2>1 DEF Depth
<1>6. ~GoingOut' /\ ~ComingIn'
  BY <1>3 DEF GoingOut, ComingIn
<1>7. StateInv'
  <2>1. index' \in 0 .. Len(Chain) /\ passed' \subseteq 1 .. index'
    BY <1>2, <1>3
  <2>2. status' \in {Unsent} \cup 200 .. 500 /\ bodies' \in Nat
    BY <1>3
  <2>3. errors' = <<>> /\ aborted' \in BOOLEAN
    BY <1>2, <1>3 DEF Inv, StateInv
  <2> QED BY <1>2, <1>3, <2>1, <2>2, <2>3 DEF StateInv
<1>8. StackInv'
  BY <1>1, <1>3, StackStays
<1>9. InInv' /\ OutInv'
  BY <1>6 DEF InInv, OutInv
<1>10. PanicInv'
  BY <1>2, <1>3, <1>4, <1>5 DEF PanicInv, Unsent
<1>11. CorsInv'
  BY <1>2, <1>3 DEF CorsInv, Inv, given
<1>12. ErrorInv' /\ AccessInv'
  BY <1>2, <1>3, <1>6 DEF ErrorInv, AccessInv
<1>13. CauseInv'
  <2>1. ~(status' >= 400)
    BY <1>3 DEF Unsent
  <2> QED BY <2>1 DEF CauseInv
<1> QED BY <1>2, <1>7, <1>8, <1>9, <1>10, <1>11, <1>12, <1>13 DEF Inv

(* Recovery is the third layer, so that it leaves two on the stack.        *)
LEMMA RecoversInv ==
  ASSUME Inv, Recovers
  PROVE  Inv'
<1>1. ChainOK /\ GivenInv
  BY ChainShape DEF Inv
<1>2. panicking /\ UNCHANGED <<given, index, passed, errors>>
  BY DEF Recovers
<1>3. /\ Chain' = Chain /\ Cors' = Cors /\ Handler' = Handler
      /\ UNCHANGED <<origin, route, installed>>
  BY <1>2, ChainKept DEF given
<1>4. /\ index >= 4 /\ Len(stack) >= 3 /\ errors = <<>> /\ records = {}
      /\ \/ status = Unsent /\ bodies = 0
         \/ status = 200 /\ bodies = 1 /\ Chain[index] = "handler"
  BY <1>2 DEF Inv, PanicInv
<1>5. /\ panicking' = FALSE /\ aborted' = TRUE
      /\ status' = 200 \/ status' = 500
      /\ bodies' = 1 /\ readable' = readable
  <2>1. panicking' = FALSE /\ aborted' = TRUE
    BY DEF Recovers
  <2>2. CASE status = Unsent
    <3>1. Send(500, 1)
      BY <2>2 DEF Recovers
    <3>2. status' = 500 /\ bodies' = bodies + 1 /\ readable' = readable
      BY <2>2, <3>1 DEF Send
    <3>3. bodies = 0
      BY <1>4, <2>2 DEF Unsent
    <3> QED BY <2>1, <3>2, <3>3
  <2>3. CASE status # Unsent
    <3>1. UNCHANGED reply
      BY <2>3 DEF Recovers
    <3>2. status = 200 /\ bodies = 1
      BY <1>4, <2>3
    <3>3. status' = status /\ bodies' = bodies /\ readable' = readable
      BY <3>1 DEF reply
    <3>4. status' = 200 /\ bodies' = 1
      BY <3>2, <3>3
    <3> QED BY <2>1, <3>3, <3>4
  <2> QED BY <2>2, <2>3
<1>5a. records' = {<<"panicRecovered", 500>>}
  <2>1. records' = records \cup {<<"panicRecovered", 500>>}
    BY DEF Recovers
  <2> QED BY <1>4, <2>1
<1>6. /\ stack \in Seq(Waiting) /\ Len(stack) \in Nat
      /\ \A d \in 1 .. Len(stack) : stack[d] = Chain[Position(d)]
      /\ index \in 0 .. Len(Chain) /\ Len(stack) <= Depth(index)
  BY DEF Inv, StackInv, StateInv
<1>7. \A d \in 1 .. Len(stack) : stack[d] = "recovery" <=> d = 3
  <2> TAKE d \in 1 .. Len(stack)
  <2>1. Position(d) \in 1 .. Len(Chain)
    BY <1>1, <1>6, PositionInChain
  <2>2. PICK i \in 1 .. Len(Chain) : i = Position(d)
    BY <2>1
  <2>3. Chain[i] = "recovery" <=> i = 3
    BY <1>1, Places
  <2>4. Position(d) = 3 <=> d = 3
    BY <1>6 DEF Position, Cors
  <2> QED BY <1>6, <2>2, <2>3, <2>4
<1>8. stack' = SubSeq(stack, 1, 2)
  <2>1. DOMAIN stack = 1 .. Len(stack)
    BY <1>6
  <2>2. (CHOOSE i \in DOMAIN stack : stack[i] = "recovery") = 3
    BY <1>4, <1>6, <1>7, <2>1
  <2>3. stack' = SubSeq(stack, 1, 3 - 1)
    BY <2>2 DEF Recovers, Above
  <2> QED BY <2>3
<1>9. /\ stack' \in Seq(Waiting) /\ Len(stack') = 2
      /\ \A d \in 1 .. 2 : stack'[d] = stack[d]
  BY <1>4, <1>6, <1>8, SubSeqProperties
<1>10. GoingOut' /\ ~ComingIn'
  BY <1>5 DEF GoingOut, ComingIn, LoopOver
<1>11. StateInv'
  <2>1. status' \in {Unsent} \cup 200 .. 500 /\ bodies' \in Nat
    BY <1>5
  <2>2. index' \in 0 .. Len(Chain) /\ passed' \subseteq 1 .. index'
    BY <1>2 DEF Inv, StateInv
  <2>3. errors' = <<>> /\ aborted' = TRUE /\ panicking' = FALSE
    BY <1>2, <1>4, <1>5
  <2> QED BY <1>3, <2>1, <2>2, <2>3 DEF StateInv
<1>12. StackInv'
  <2>1. \A d : Position(d)' = Position(d)
    BY <1>3 DEF Position
  <2>2. Depth(index)' = Depth(index) /\ Depth(index) \in Int
    BY <1>2, <1>3, <1>6 DEF Depth, Cors
  <2> QED BY <1>3, <1>4, <1>6, <1>9, <2>1, <2>2 DEF StackInv
<1>13. InInv' /\ PanicInv' /\ ErrorInv'
  BY <1>2, <1>4, <1>5, <1>10 DEF InInv, PanicInv, ErrorInv
<1>14. CorsInv'
  BY <1>2, <1>3, <1>5 DEF CorsInv, Inv
<1>15. OutInv'
  <2>1. Recovered'
    BY <1>5a DEF Recovered
  <2> QED BY <1>2, <1>4, <1>5, <2>1 DEF OutInv, Unsent
<1>16. CauseInv'
  <2>1. status' = 200 => ~(status' >= 400)
    OBVIOUS
  <2>2. status' = 500 => <<"panicRecovered", status'>> \in records'
    BY <1>5a
  <2>3. status' = 500 =>
          {<<"requestFailed", status'>>, <<"panicRecovered", status'>>}
            \cap records' # {}
    BY <2>2
  <2> QED BY <1>5, <2>1, <2>3 DEF CauseInv
<1>17. AccessInv'
  <2>1. \A code : <<"request", code>> \notin records'
    BY <1>5a
  <2>2. ~(Len(stack') <= 1)
    BY <1>9
  <2> QED BY <2>1, <2>2 DEF AccessInv
<1>18. GivenInv'
  BY <1>1, <1>3 DEF GivenInv
<1> QED BY <1>11, <1>12, <1>13, <1>14, <1>15, <1>16, <1>17, <1>18 DEF Inv


-----------------------------------------------------------------------------
(* The way out.                                                            *)
LEMMA ResumedFacts ==
  ASSUME Inv, NEW l, Resumed(l)
  PROVE  /\ ChainOK /\ GivenInv' /\ GoingOut
         /\ Chain' = Chain /\ Cors' = Cors /\ Handler' = Handler
         /\ UNCHANGED <<installed, route, origin, index, panicking, passed>>
         /\ Len(stack) \in Nat /\ Len(stack') = Len(stack) - 1
         /\ Len(stack) >= 1
         /\ l = "logger" <=> Len(stack) = 2
         /\ l = "exceptionHandler" <=> Len(stack) = 5
         /\ StackInv'
<1>1. ChainOK
  BY ChainShape DEF Inv
<1>2. /\ GoingOut /\ stack # <<>> /\ stack[Len(stack)] = l
      /\ stack' = SubSeq(stack, 1, Len(stack) - 1)
      /\ UNCHANGED <<given, index, panicking, passed>>
  BY DEF Resumed, GoingOut
<1>3. UNCHANGED <<installed, route, origin, index, panicking, passed>>
  BY <1>2 DEF given
<1>4. Chain' = Chain /\ Cors' = Cors /\ Handler' = Handler
  BY <1>2, ChainKept
<1>5. /\ stack \in Seq(Waiting) /\ Len(stack) \in Nat
      /\ \A d \in 1 .. Len(stack) : stack[d] = Chain[Position(d)]
      /\ index \in 0 .. Len(Chain) /\ Len(stack) <= Depth(index)
  BY DEF Inv, StackInv, StateInv
<1>6. Len(stack) >= 1
  BY <1>2, <1>5, EmptySeq
<1>7. PICK n \in Nat : n = Len(stack)
  BY <1>5
<1>8. /\ stack' \in Seq(Waiting) /\ Len(stack') = n - 1
      /\ \A d \in 1 .. n - 1 : stack'[d] = stack[d]
  <2>1. 1 \in 1 .. n + 1 /\ n - 1 \in 0 .. n
    BY <1>6, <1>7
  <2> QED BY <2>1, <1>2, <1>5, <1>6, <1>7, SubSeqProperties
<1>9. Len(Chain) \in Nat /\ Cors \in {0, 1} /\ Handler = 5 + Cors
  BY <1>1 DEF ChainOK, Cors, Handler
<1>10. /\ l = "logger" <=> n = 2
       /\ l = "exceptionHandler" <=> n = 5
  <2>1. n \in 1 .. Len(stack)
    BY <1>6, <1>7
  <2>2. Position(n) \in 1 .. Len(Chain)
    BY <1>1, <2>1, PositionInChain
  <2>3. PICK i \in 1 .. Len(Chain) : i = Position(n)
    BY <2>2
  <2>4. Chain[i] = "logger" <=> i = 2
    BY <1>1, Places
  <2>5. Chain[i] = "exceptionHandler" <=> i = Handler
    BY <1>1, Places
  <2>6. (i = 2 <=> n = 2) /\ (i = Handler <=> n = 5)
    BY <1>9, <2>3 DEF Position
  <2>7. l = Chain[i]
    BY <1>2, <1>5, <1>7, <2>1, <2>3
  <2> QED BY <2>4, <2>5, <2>6, <2>7
<1>11. StackInv'
  <2>1. \A d : Position(d)' = Position(d)
    BY <1>4 DEF Position
  <2>2. Depth(index)' = Depth(index) /\ Depth(index) \in Int
    BY <1>3, <1>4, <1>5, <1>9 DEF Depth
  <2>3. Len(stack') <= Depth(index)
    BY <1>5, <1>7, <1>8, <2>2
  <2>4. \A d \in 1 .. Len(stack') : stack'[d] = Chain[Position(d)]
    BY <1>5, <1>7, <1>8
  <2> QED BY <1>4, <1>8, <2>1, <2>2, <2>3, <2>4 DEF StackInv
<1>12. GivenInv'
  BY <1>3 DEF Inv, GivenInv
<1> QED BY <1>1, <1>2, <1>3, <1>4, <1>5, <1>6, <1>7, <1>8, <1>10, <1>11, <1>12

(* A layer that does nothing more, or the exception handler without an     *)
(* error.                                                                  *)
LEMMA ReturnsInv ==
  ASSUME Inv, NEW l, Resumed(l), UNCHANGED <<aborted, errors, reply, records>>,
         l # "logger", l = "exceptionHandler" => errors = <<>>
  PROVE  Inv'
<1>1. /\ ChainOK /\ GivenInv' /\ GoingOut
      /\ Chain' = Chain /\ Cors' = Cors /\ Handler' = Handler
      /\ UNCHANGED <<installed, route, origin, index, panicking, passed>>
      /\ Len(stack) \in Nat /\ Len(stack') = Len(stack) - 1
      /\ Len(stack) >= 1
      /\ l = "logger" <=> Len(stack) = 2
      /\ l = "exceptionHandler" <=> Len(stack) = 5
      /\ StackInv'
  BY ResumedFacts
<1>2. UNCHANGED <<status, bodies, readable, errors, records, aborted>>
  BY DEF reply
<1>3. GoingOut' /\ ~ComingIn' /\ (Recovered' <=> Recovered)
  BY <1>1, <1>2 DEF GoingOut, ComingIn, LoopOver, Recovered
<1>4. StateInv'
  BY <1>1, <1>2 DEF StateInv, Inv
<1>5. InInv' /\ PanicInv'
  BY <1>1, <1>3 DEF InInv, PanicInv, GoingOut
<1>6. CorsInv'
  BY <1>1, <1>2 DEF CorsInv, Inv
<1>7. OutInv'
  <2>1. OutInv
    BY DEF Inv
  <2>2. status = Unsent => Len(stack) > 5
    BY <1>1, <2>1 DEF OutInv
  <2>3. status = Unsent => Len(stack') >= 5
    BY <1>1, <2>2
  <2> QED BY <1>1, <1>2, <1>3, <2>1, <2>3 DEF OutInv, Unsent
<1>8. ErrorInv'
  <2>1. ErrorInv
    BY DEF Inv
  <2>2. errors # <<>> /\ Len(stack') < 5 => Len(stack) < 5
    BY <1>1
  <2>3. Last(errors)' = Last(errors)
    BY <1>2 DEF Last
  <2> QED BY <1>1, <1>2, <1>3, <2>1, <2>2, <2>3 DEF ErrorInv
<1>9. CauseInv'
  BY <1>1, <1>2 DEF CauseInv, Inv
<1>10. AccessInv'
  <2>1. AccessInv
    BY DEF Inv
  <2>2. Len(stack') <= 1 <=> Len(stack) <= 1
    BY <1>1
  <2> QED BY <1>1, <1>2, <1>3, <2>1, <2>2 DEF AccessInv, Unsent
<1> QED BY <1>1, <1>4, <1>5, <1>6, <1>7, <1>8, <1>9, <1>10 DEF Inv

(* The access log, below which the answer has been sent.                   *)
LEMMA LogsRequestInv ==
  ASSUME Inv, LogsRequest
  PROVE  Inv'
<1>1. /\ ChainOK /\ GivenInv' /\ GoingOut
      /\ Chain' = Chain /\ Cors' = Cors /\ Handler' = Handler
      /\ UNCHANGED <<installed, route, origin, index, panicking, passed>>
      /\ Len(stack') = 1 /\ Len(stack) = 2
      /\ StackInv'
  <2>1. Resumed("logger")
    BY DEF LogsRequest
  <2>2. Len(stack) = 2
    BY <2>1, ResumedFacts
  <2>3. Len(stack') = 1
    BY <2>1, <2>2, ResumedFacts
  <2> QED BY <2>1, <2>2, <2>3, ResumedFacts
<1>2. UNCHANGED <<status, bodies, readable, errors, aborted>>
  BY DEF LogsRequest, reply
<1>3. status # Unsent
  BY <1>1 DEF Inv, OutInv
<1>4. records' = records \cup {<<"request", status>>}
  BY <1>3 DEF LogsRequest
<1>5. GoingOut' /\ ~ComingIn' /\ (Recovered' <=> Recovered)
  BY <1>1, <1>2, <1>4 DEF GoingOut, ComingIn, LoopOver, Recovered
<1>6. StateInv'
  BY <1>1, <1>2 DEF StateInv, Inv
<1>7. InInv' /\ PanicInv'
  BY <1>1, <1>5 DEF InInv, PanicInv, GoingOut
<1>8. CorsInv'
  BY <1>1, <1>2 DEF CorsInv, Inv
<1>9. OutInv'
  BY <1>1, <1>2, <1>3, <1>5 DEF OutInv, Unsent, Inv
<1>10. ErrorInv'
  <2>1. Last(errors)' = Last(errors)
    BY <1>2 DEF Last
  <2>2. ErrorInv /\ records \subseteq records'
    BY <1>4 DEF Inv
  <2>3. Len(stack) < 5
    BY <1>1
  <2> QED BY <1>1, <1>2, <1>5, <2>1, <2>2, <2>3 DEF ErrorInv
<1>11. CauseInv'
  <2>1. records \subseteq records'
    BY <1>4
  <2> QED BY <1>1, <1>2, <2>1 DEF CauseInv, Inv
<1>12. AccessInv'
  <2>1. \A code : <<"request", code>> \in records' => code = status
    <3>1. AccessInv
      BY DEF Inv
    <3>2. ~(Len(stack) <= 1)
      BY <1>1
    <3>3. \A code : <<"request", code>> \notin records
      BY <3>1, <3>2 DEF AccessInv
    <3> QED BY <3>3, <1>4
  <2>2. <<"request", status>> \in records'
    BY <1>4
  <2> QED BY <1>1, <1>2, <1>3, <1>5, <2>1, <2>2 DEF AccessInv, Unsent
<1> QED BY <1>1, <1>6, <1>7, <1>8, <1>9, <1>10, <1>11, <1>12 DEF Inv

(* The exception handler with an error.                                    *)
LEMMA RendersInv ==
  ASSUME Inv, Renders
  PROVE  Inv'
<1>1. /\ ChainOK /\ GivenInv' /\ GoingOut
      /\ Chain' = Chain /\ Cors' = Cors /\ Handler' = Handler
      /\ UNCHANGED <<installed, route, origin, index, panicking, passed>>
      /\ Len(stack') = 4 /\ Len(stack) = 5
      /\ StackInv'
  <2>1. Resumed("exceptionHandler")
    BY DEF Renders
  <2>2. Len(stack) = 5
    BY <2>1, ResumedFacts
  <2>3. Len(stack') = 4
    BY <2>1, <2>2, ResumedFacts
  <2> QED BY <2>1, <2>2, <2>3, ResumedFacts
<1>2. PICK code \in 400 .. 500 : errors = <<code>>
  BY DEF Renders, Inv, StateInv
<1>3. Last(errors) = code /\ Last(errors)' = code /\ errors' = errors
  BY <1>2 DEF Last, Renders
<1>4. records' = records \cup {<<"requestFailed", code>>}
  BY <1>3 DEF Renders
<1>5. /\ readable' = readable
      /\ \/ status = Unsent /\ status' = code /\ bodies' = bodies + 1 /\ aborted' = TRUE
         \/ status # Unsent /\ UNCHANGED <<status, bodies, aborted>>
  <2>1. CASE status = Unsent
    <3>1. Send(Last(errors), 1) /\ aborted' = TRUE
      BY <2>1 DEF Renders
    <3>2. status' = Last(errors) /\ bodies' = bodies + 1 /\ readable' = readable
      BY <2>1, <3>1 DEF Send
    <3> QED BY <1>3, <2>1, <3>1, <3>2
  <2>2. CASE status # Unsent
    <3>1. UNCHANGED <<reply, aborted>>
      BY <2>2 DEF Renders
    <3> QED BY <2>2, <3>1 DEF reply
  <2> QED BY <2>1, <2>2
<1>5a. aborted' = TRUE \/ aborted' = aborted
  <2>1. CASE status = Unsent
    BY <2>1 DEF Renders
  <2>2. CASE status # Unsent
    BY <2>2 DEF Renders
  <2> QED BY <2>1, <2>2
<1>6. GoingOut' /\ ~ComingIn' /\ (Recovered' <=> Recovered)
  <2>1. ~panicking'
    BY <1>1 DEF GoingOut
  <2>2. LoopOver'
    <3>1. CASE aborted
      BY <1>5a, <3>1 DEF LoopOver
    <3>2. CASE index = Len(Chain)
      BY <1>1, <3>2 DEF LoopOver
    <3>3. LoopOver
      BY <1>1 DEF GoingOut
    <3> QED BY <3>1, <3>2, <3>3 DEF LoopOver
  <2>3. <<"panicRecovered", 500>> # <<"requestFailed", code>>
    OBVIOUS
  <2>4. <<"panicRecovered", 500>> \in records' <=> <<"panicRecovered", 500>> \in records
    BY <1>4, <2>3
  <2>5. GoingOut' /\ ~ComingIn'
    BY <2>1, <2>2 DEF GoingOut, ComingIn
  <2>6. ASSUME Recovered' PROVE Recovered
    BY <2>4, <2>6 DEF Recovered
  <2>7. ASSUME Recovered PROVE Recovered'
    BY <2>4, <2>7 DEF Recovered
  <2> QED BY <2>5, <2>6, <2>7
<1>7. /\ index > Handler /\ index \in 1 .. Len(Chain) /\ Chain[index] # "cors"
  <2>1. index > Handler /\ index \in 0 .. Len(Chain)
    BY <1>2 DEF Inv, ErrorInv, StateInv
  <2>2. Len(Chain) \in Nat /\ Handler \in Nat /\ Handler >= 5
    BY <1>1 DEF ChainOK, Handler, Cors
  <2>3. PICK i \in 1 .. Len(Chain) : i = index
    BY <2>1, <2>2
  <2>4. Chain[i] = "cors" <=> Cors = 1 /\ i = 4
    BY <1>1, Places
  <2> QED BY <2>1, <2>2, <2>3, <2>4
<1>8. status' # Unsent /\ bodies' = 1 /\ status' \in {Unsent} \cup 200 .. 500
  <2>1. OutInv /\ StateInv
    BY DEF Inv
  <2>2. CASE status = Unsent
    BY <1>1, <1>5, <2>1, <2>2 DEF OutInv, Unsent
  <2>3. CASE status # Unsent
    <3>1. UNCHANGED <<status, bodies>>
      BY <1>5, <2>3
    <3>2. bodies = 1
      BY <1>1, <1>7, <2>1, <2>3 DEF OutInv
    <3> QED BY <2>1, <2>3, <3>1, <3>2 DEF StateInv
  <2> QED BY <2>2, <2>3
<1>9. StateInv'
  <2>1. StateInv
    BY DEF Inv
  <2>2. aborted' \in BOOLEAN
    <3>1. aborted \in BOOLEAN
      BY <2>1 DEF StateInv
    <3> QED BY <1>5a, <3>1
  <2>3. errors' = errors
    BY <1>3
  <2>4. UNCHANGED <<index, panicking, passed>> /\ Chain' = Chain
    BY <1>1
  <2>5. bodies' \in Nat
    BY <1>8
  <2> QED BY <1>8, <2>1, <2>2, <2>3, <2>4, <2>5 DEF StateInv
<1>10. InInv' /\ PanicInv'
  BY <1>1, <1>6 DEF InInv, PanicInv, GoingOut
<1>11. CorsInv'
  BY <1>1, <1>5 DEF CorsInv, Inv
<1>12. OutInv'
  BY <1>1, <1>6, <1>7, <1>8 DEF OutInv, Unsent, Inv
<1>13. ErrorInv'
  BY <1>1, <1>3, <1>4, <1>6, <1>7 DEF ErrorInv
<1>14. CauseInv'
  <2>1. CASE status = Unsent
    <3>1. <<"requestFailed", status'>> \in records'
      BY <1>4, <1>5, <2>1
    <3> QED BY <3>1 DEF CauseInv
  <2>2. CASE status # Unsent
    <3>1. records \subseteq records' /\ status' = status
      BY <1>4, <1>5, <2>2
    <3> QED BY <1>1, <3>1 DEF CauseInv, Inv
  <2> QED BY <2>1, <2>2
<1>15. AccessInv'
  <2>1. \A c : <<"request", c>> \notin records
    <3>1. AccessInv
      BY DEF Inv
    <3>2. ~(Len(stack) <= 1)
      BY <1>1
    <3> QED BY <3>1, <3>2 DEF AccessInv
  <2>2. \A c : <<"request", c>> \notin records'
    BY <1>4, <2>1
  <2>3. ~(Len(stack') <= 1)
    BY <1>1
  <2> QED BY <2>2, <2>3 DEF AccessInv
<1> QED BY <1>1, <1>9, <1>10, <1>11, <1>12, <1>13, <1>14, <1>15 DEF Inv


(* Another request: as at the start.                                       *)
LEMMA ArriveInv ==
  ASSUME Inv, Arrive
  PROVE  Inv'
<1>1. GivenInv'
  BY DEF Arrive, GivenInv, Inv
<1>2. ChainOK'
  BY <1>1, ChainShape, PTL
<1>3. Len(Chain') \in Nat /\ Len(Chain') > 5 /\ Cors' \in {0, 1}
  BY <1>2 DEF ChainOK, Handler, Cors
<1>4. /\ index' = 0 /\ aborted' = FALSE /\ stack' = <<>> /\ panicking' = FALSE
      /\ passed' = {} /\ errors' = <<>> /\ records' = {}
      /\ status' = 0 /\ bodies' = 0
  BY DEF Arrive, Unsent
<1>5. StateInv'
  <2>1. errors' = <<>> /\ status' \in {Unsent} /\ bodies' \in Nat
    BY <1>4 DEF Unsent
  <2>2. index' \in 0 .. Len(Chain') /\ passed' \subseteq 1 .. index'
    BY <1>3, <1>4
  <2> QED BY <1>4, <2>1, <2>2 DEF StateInv
<1>6. StackInv'
  BY <1>4 DEF StackInv, Depth
<1>7. InInv'
  BY <1>4 DEF InInv, Depth, Unsent
<1>8. PanicInv' /\ OutInv' /\ AccessInv'
  BY <1>3, <1>4 DEF PanicInv, OutInv, AccessInv, GoingOut, LoopOver
<1>9. CorsInv' /\ ErrorInv' /\ CauseInv'
  BY <1>4 DEF CorsInv, ErrorInv, CauseInv
<1> QED BY <1>1, <1>5, <1>6, <1>7, <1>8, <1>9 DEF Inv

LEMMA StutterInv ==
  ASSUME Inv, UNCHANGED vars
  PROVE  Inv'
<1>1. /\ UNCHANGED given
      /\ UNCHANGED <<index, aborted, stack, panicking, passed>>
      /\ UNCHANGED <<errors, status, bodies, readable, records>>
  BY DEF vars, chain, reply
<1>2. Chain' = Chain /\ Cors' = Cors /\ Handler' = Handler
  BY <1>1, ChainKept
<1>3. UNCHANGED <<installed, route, origin>>
  BY <1>1 DEF given
<1>4. GivenInv'
  BY <1>3 DEF Inv, GivenInv
<1>5. StateInv' /\ StackInv' /\ InInv'
  BY <1>1, <1>2
     DEF Inv, StateInv, StackInv, InInv, ComingIn, LoopOver, Depth, Position
<1>6. PanicInv' /\ CorsInv' /\ OutInv'
  <2>1. PanicInv'
    BY <1>1, <1>2 DEF Inv, PanicInv
  <2>2. CorsInv'
    BY <1>1, <1>2, <1>3 DEF Inv, CorsInv
  <2>3. OutInv'
    <3>1. (GoingOut' <=> GoingOut) /\ (Recovered' <=> Recovered)
      BY <1>1, <1>2 DEF GoingOut, LoopOver, Recovered
    <3>2. UNCHANGED <<index, stack, errors, status, bodies>>
      BY <1>1
    <3> QED BY <1>2, <1>3, <3>1, <3>2 DEF Inv, OutInv, Unsent
  <2> QED BY <2>1, <2>2, <2>3
<1>7. ErrorInv' /\ CauseInv' /\ AccessInv'
  <2>1. GoingOut' <=> GoingOut
    BY <1>1, <1>2 DEF GoingOut, LoopOver
  <2>2. ErrorInv'
    BY <1>1, <1>2, <2>1 DEF Inv, ErrorInv, Last
  <2>3. CauseInv'
    BY <1>1, <1>2 DEF Inv, CauseInv
  <2>4. AccessInv'
    BY <1>1, <2>1 DEF Inv, AccessInv, Unsent
  <2> QED BY <2>2, <2>3, <2>4
<1> QED BY <1>4, <1>5, <1>6, <1>7 DEF Inv

LEMMA NextInv == Inv /\ [Next]_vars => Inv'
<1> SUFFICES ASSUME Inv, [Next]_vars PROVE Inv'
  OBVIOUS
<1>1. ASSUME NEW i \in DOMAIN Chain, Wraps(Chain[i]) PROVE Inv'
  <2>1. PICK l : l = Chain[i]
    OBVIOUS
  <2>2. /\ l \in Waiting /\ Called(l) /\ CallsNext(l)
        /\ UNCHANGED <<errors, reply, records>>
    BY <1>1, <2>1 DEF Wraps, Waiting
  <2> QED BY <2>2, GoesOn
<1>2. ASSUME NEW i \in DOMAIN Chain, GuardPasses(Chain[i]) PROVE Inv'
  <2>1. PICK l : l = Chain[i]
    OBVIOUS
  <2>2. /\ l \in Waiting /\ Called(l) /\ CallsNext(l)
        /\ UNCHANGED <<errors, reply, records>>
    BY <1>2, <2>1 DEF GuardPasses, Waiting
  <2> QED BY <2>2, GoesOn
<1>3. ASSUME NEW i \in DOMAIN Chain, GuardRejects(Chain[i]) PROVE Inv'
  BY <1>3, GuardRejectsInv
<1>4. ASSUME NEW i \in DOMAIN Chain, Returns(Chain[i]) PROVE Inv'
  <2>1. PICK l : l = Chain[i]
    OBVIOUS
  <2>2. /\ Resumed(l) /\ UNCHANGED <<aborted, errors, reply, records>>
        /\ l # "logger" /\ l # "exceptionHandler"
    BY <1>4, <2>1 DEF Returns
  <2> QED BY <2>2, ReturnsInv
<1>5. CASE CorsPasses
  BY <1>5, CorsPassesInv
<1>6. CASE CorsAnswers
  BY <1>6, CorsAnswersInv
<1>7. CASE HandlerSucceeds \/ HandlerUnheard \/ HandlerFails
  BY <1>7, HandlerInv
<1>8. CASE Fallback
  BY <1>8, FallbackInv
<1>9. CASE Panics
  BY <1>9, PanicsInv
<1>10. CASE Recovers
  BY <1>10, RecoversInv
<1>11. CASE LogsRequest
  BY <1>11, LogsRequestInv
<1>12. CASE NothingReported
  <2>1. /\ Resumed("exceptionHandler") /\ errors = <<>>
        /\ UNCHANGED <<aborted, errors, reply, records>>
    BY <1>12 DEF NothingReported
  <2> QED BY <2>1, ReturnsInv
<1>13. CASE Renders
  BY <1>13, RendersInv
<1>14. CASE Arrive
  BY <1>14, ArriveInv
<1>15. CASE UNCHANGED vars
  BY <1>15, StutterInv
<1> QED BY <1>1, <1>2, <1>3, <1>4, <1>5, <1>6, <1>7, <1>8, <1>9, <1>10, <1>11,
           <1>12, <1>13, <1>14, <1>15 DEF Next

LEMMA InvHolds == Spec => []Inv
BY InitInv, NextInv, PTL DEF Spec

-----------------------------------------------------------------------------
(* The types.                                                              *)
THEOREM TypeCorrect == Spec => []TypeOK
<1>1. Inv => TypeOK
  <2> SUFFICES ASSUME Inv PROVE TypeOK
    OBVIOUS
  <2>1. /\ installed \subseteq Optional
        /\ route \in Requests /\ origin \in Origins(route)
    BY DEF Inv, GivenInv
  <2>2. /\ index \in 0 .. Len(Chain) /\ passed \subseteq 1 .. index
        /\ status \in {Unsent} \cup 200 .. 500 /\ bodies \in Nat
    BY DEF Inv, StateInv
  <2>3. ChainOK /\ Len(Chain) \in Nat /\ Cors \in {0, 1}
    BY ChainShape DEF Inv, ChainOK, Cors
  <2>4. Len(stack) <= index
    <3>1. Len(stack) <= Depth(index) /\ Len(stack) \in Nat
      BY DEF Inv, StackInv
    <3> QED BY <3>1, <2>2, <2>3 DEF Depth
  <2>5. \A i \in DOMAIN errors : errors[i] \in 400 .. 500
    <3>1. CASE errors = <<>>
      BY <3>1
    <3>2. CASE \E code \in 400 .. 500 : errors = <<code>>
      <4>1. PICK code \in 400 .. 500 : errors = <<code>>
        BY <3>2
      <4>2. \A i \in DOMAIN errors : i = 1
        BY <4>1
      <4>3. errors[1] = code
        BY <4>1
      <4> QED BY <4>2, <4>3
    <3>3. errors = <<>> \/ \E code \in 400 .. 500 : errors = <<code>>
      BY DEF Inv, StateInv
    <3> QED BY <3>1, <3>2, <3>3
  <2>6. panicking => \E i \in DOMAIN stack : stack[i] = "recovery"
    <3> SUFFICES ASSUME panicking PROVE \E i \in DOMAIN stack : stack[i] = "recovery"
      OBVIOUS
    <3>1. /\ Len(stack) >= 3 /\ stack \in Seq(Waiting)
          /\ \A d \in 1 .. Len(stack) : stack[d] = Chain[Position(d)]
      BY DEF Inv, PanicInv, StackInv
    <3>2. 3 \in DOMAIN stack /\ 3 \in 1 .. Len(stack)
      BY <3>1
    <3>3. stack[3] = Chain[3]
      BY <3>1, <3>2 DEF Position
    <3> QED BY <3>2, <3>3, <2>3 DEF ChainOK
  <2> QED BY <2>1, <2>2, <2>4, <2>5, <2>6 DEF TypeOK
<1> QED BY <1>1, InvHolds, PTL

(* No handler, whatever guards its route has, runs unless every layer      *)
(* before it let the request go on (reject, Throttle, Recovery: Abort).    *)
THEOREM HandlersAlwaysGuarded == Spec => HandlersGuarded
<1>1. Inv => (Called("handler") => passed = 1 .. index)
  BY CalledFacts
<1>2. Inv /\ [Next]_vars => [Called("handler") => passed = 1 .. index]_vars
  BY <1>1
<1> QED BY <1>2, InvHolds, PTL DEF Spec, HandlersGuarded

(* A request is answered once, whatever fails, panics or was written       *)
(* already (Fail, ExceptionHandler, Recovery, CORS).                       *)
THEOREM AlwaysAnsweredOnce == Spec => []AnsweredOnce
<1>1. Inv => AnsweredOnce
  <2> SUFFICES ASSUME Inv, Finished PROVE
        /\ status # Unsent
        /\ bodies = IF "cors" \in installed /\ (origin = "foreign" \/ route = "preflight")
                       /\ <<"panicRecovered", 500>> \notin records
                    THEN 0 ELSE 1
    BY DEF AnsweredOnce
  <2>1. GoingOut /\ stack = <<>> /\ Len(stack) = 0
    BY DEF Finished, GoingOut
  <2>2. /\ index >= 4 /\ status # Unsent
        /\ bodies = IF Chain[index] = "cors" /\ ~Recovered THEN 0 ELSE 1
        /\ Chain[index] = "cors" /\ ~Recovered =>
             origin = "foreign" \/ route = "preflight"
    BY <2>1 DEF Inv, OutInv
  <2>3. ~Recovered =>
          (Chain[index] = "cors" <=>
             "cors" \in installed /\ (origin = "foreign" \/ route = "preflight"))
    <3>1. ChainOK /\ index \in 0 .. Len(Chain)
      BY ChainShape DEF Inv, StateInv
    <3>2. PICK i \in 1 .. Len(Chain) : i = index
      BY <3>1, <2>2
    <3>3. Chain[i] = "cors" <=> Cors = 1 /\ i = 4
      BY <3>1, Places
    <3>4. Cors = 1 /\ index > 4 => origin # "foreign" /\ route # "preflight"
      BY DEF Inv, CorsInv
    <3>5. Cors = 1 <=> "cors" \in installed
      BY DEF Cors
    <3>6. index = 4 \/ index > 4
      BY <2>2, <3>2
    <3>7. CASE index = 4
      BY <2>2, <3>2, <3>3, <3>5, <3>7
    <3>8. CASE index > 4
      BY <3>2, <3>3, <3>4, <3>5, <3>8
    <3> QED BY <3>6, <3>7, <3>8
  <2>4. CASE Recovered
    BY <2>2, <2>4 DEF Recovered
  <2>5. CASE ~Recovered
    BY <2>2, <2>3, <2>5 DEF Recovered
  <2> QED BY <2>4, <2>5
<1> QED BY <1>1, InvHolds, PTL

(* One access record with the status that was sent, and the cause of every *)
(* failure (Logger, Recovery, ExceptionHandler).                           *)
THEOREM EverythingOnRecord == Spec => []OnRecord
<1>1. Inv => OnRecord
  <2> SUFFICES ASSUME Inv, Finished PROVE OnRecord
    BY DEF OnRecord, AccessRecorded, CauseRecorded
  <2>1. GoingOut /\ Len(stack) = 0
    BY DEF Finished, GoingOut
  <2>2. AccessRecorded
    <3>1. <<"request", status>> \in records
      BY <2>1 DEF Inv, AccessInv
    <3>2. \A code : <<"request", code>> \in records => code = status
      BY DEF Inv, AccessInv
    <3>3. status \in Unsent .. 500
      BY DEF Inv, StateInv, Unsent
    <3> QED BY <3>1, <3>2, <3>3 DEF AccessRecorded
  <2>3. CauseRecorded
    <3>1. errors # <<>> => <<"requestFailed", Last(errors)>> \in records
      <4>1. Len(stack) < 5
        BY <2>1
      <4> QED BY <4>1 DEF Inv, ErrorInv
    <3>2. CauseInv
      BY DEF Inv
    <3> QED BY <3>1, <3>2 DEF CauseInv, CauseRecorded
  <2> QED BY <2>2, <2>3 DEF OnRecord
<1> QED BY <1>1, InvHolds, PTL

(* A browser may read what its allowed origin gets, and a preflight costs  *)
(* no token (GlobalMiddleware: CORS above the throttle and the routes).    *)
THEOREM BrowserCanRead == Spec => []ReadableByBrowser
<1>1. Inv => ReadableByBrowser
  <2> SUFFICES ASSUME Inv, Finished, "cors" \in installed, origin = "allowed"
               PROVE /\ readable \/ Chain[index] = "cors"
                     /\ route = "preflight" => errors = <<>>
    BY DEF ReadableByBrowser
  <2>1. GoingOut
    BY DEF Finished, GoingOut
  <2>2. Cors = 1 /\ Handler = 6 /\ ChainOK
    BY ChainShape DEF Inv, Cors, Handler
  <2>3. index >= 4 /\ index \in Nat
    BY <2>1, <2>2 DEF Inv, OutInv, StateInv, ChainOK
  <2>4. index > 4 => readable /\ route # "preflight"
    BY <2>2 DEF Inv, CorsInv
  <2>5. index = 4 => Chain[index] = "cors"
    BY <2>2 DEF ChainOK
  <2>6. errors # <<>> => index > 6
    BY <2>2 DEF Inv, ErrorInv
  <2> QED BY <2>3, <2>4, <2>5, <2>6
<1> QED BY <1>1, InvHolds, PTL

=============================================================================
