------------------------------ MODULE ShopProofs ------------------------------
(***************************************************************************)
(* Safety of the web shop: of its session with any users, and of its cart  *)
(* and checkout with any products and any number of submissions.           *)
(***************************************************************************)
EXTENDS Checkout, Session, TLAPS

(* The session.                                                            *)

\* Live cookies, the answers that bring them and an accepted entry name a user.
SomebodyNamed ==
  /\ age < 5 => owner \in Users
  /\ fetch.rolls => fetch.for \in Users
  /\ admitted => entering \in Users

\* The query keeps only what it received.
CachedIsFetched == cached \in {NoUser} \cup fetched

SessionIInv == SessionTypeOK /\ SomebodyNamed /\ CachedIsFetched /\ ShownIsKnown

Fetches == [status : {"idle", "sent", "waiting"}, attempt : 0..2, for : Someone, rolls : BOOLEAN]

LEMMA InitSession == SessionInit => SessionIInv
<1> SUFFICES ASSUME SessionInit PROVE SessionIInv
  OBVIOUS
<1>1. fetch \in Fetches /\ ~fetch.rolls
  BY DEF SessionInit, NoRequest, Fetches, Someone
<1>2. age \in 1..5 /\ owner \in Someone /\ (age < 5 => owner \in Users)
  BY DEF SessionInit, Someone
<1>3. SessionTypeOK
  BY <1>1, <1>2 DEF SessionInit, SessionTypeOK, Fetches, Someone
<1> QED
  BY <1>1, <1>2, <1>3
     DEF SessionInit, SessionIInv, SomebodyNamed, CachedIsFetched, ShownIsKnown

\* What the guard answers, as a request holds it.
LEMMA RequestType ==
  ASSUME SessionIInv, NEW n \in 1..2
  PROVE  /\ Request(n, roleGuard) \in Fetches
         /\ Request(n, roleGuard).rolls => Request(n, roleGuard).for \in Users
<1>1. age \in 1..5 /\ owner \in Someone /\ (age < 5 => owner \in Users)
  BY DEF SessionIInv, SessionTypeOK, SomebodyNamed
<1>2. Ages[age] = "rolling" => age = 3 /\ Valid
  BY <1>1 DEF Ages, Valid
<1>3. roleGuard.for \in Someone /\ roleGuard.rolls \in BOOLEAN
  BY <1>1 DEF roleGuard, Someone
<1>4. roleGuard.rolls => roleGuard.for \in Users
  <2>1. (roleGuard.rolls <=> Ages[age] = "rolling") /\ (Valid => roleGuard.for = owner)
    BY DEF roleGuard
  <2> QED
    BY <1>1, <1>2, <2>1
<1> QED
  BY <1>3, <1>4 DEF Request, Fetches

LEMMA IdleType == NoRequest \in Fetches /\ ~NoRequest.rolls
  BY DEF NoRequest, Fetches, Someone

\* Every step of the session keeps its invariant.
LEMMA StepSession == SessionIInv /\ [SessionNext]_sessionVars => SessionIInv'
<1> SUFFICES ASSUME SessionIInv, [SessionNext]_sessionVars PROVE SessionIInv'
  OBVIOUS
<1>1. /\ accounts \subseteq Users /\ age \in 1..5 /\ owner \in Someone
      /\ path \in Paths /\ user \in Someone /\ splash \in BOOLEAN /\ due \in BOOLEAN
      /\ cached \in Someone /\ awaited \in BOOLEAN /\ fetch \in Fetches
      /\ strays \subseteq Users /\ fetched \subseteq Users
      /\ entering \in Someone /\ admitted \in BOOLEAN
      /\ leaving \in {"no", "accepted", "refused"} /\ signedIn \in Someone
      /\ age < 5 => owner \in Users
      /\ fetch.rolls => fetch.for \in Users
      /\ admitted => entering \in Users
      /\ cached \in {NoUser} \cup fetched /\ user \in {NoUser, signedIn} \cup fetched
  BY DEF SessionIInv, SessionTypeOK, Fetches, SomebodyNamed, CachedIsFetched, ShownIsKnown
<1>2. /\ fetch.status \in {"idle", "sent", "waiting"} /\ fetch.attempt \in 0..2
      /\ fetch.for \in Users \cup {NoUser} /\ fetch.rolls \in BOOLEAN
  BY <1>1 DEF Fetches, Someone
<1>3. NoUser \in Someone /\ "shop" \in Paths /\ "auth" \in Paths
      /\ \A u \in Users : u \in Someone /\ u # NoUser
  BY SessionAssumption DEF Someone, Paths
<1> USE <1>1, <1>2, <1>3, IdleType
    DEF SessionIInv, SessionTypeOK, SomebodyNamed, CachedIsFetched, ShownIsKnown,
        cookies, shown, query, mutations, SetCookies, Show
<1>4. CASE lapse
  BY <1>4 DEF lapse, Fetches
<1>5. CASE effect
  <2>1. /\ fetch' = fetch \/ fetch' = Request(1, roleGuard)
        /\ awaited' \in BOOLEAN
    BY <1>5 DEF effect, Refetch
  <2>3. fetch' \in Fetches /\ (fetch'.rolls => fetch'.for \in Users)
    BY <2>1, RequestType
  <2>2. strays' \subseteq Users
    BY <1>5 DEF effect, Refetch
  <2> QED
    BY <1>5, <2>1, <2>2, <2>3 DEF effect, Fetches
<1>6. CASE refocus
  <2>1. fetch' \in Fetches /\ (fetch'.rolls => fetch'.for \in Users)
    BY <1>6, RequestType DEF refocus
  <2> QED
    BY <1>6, <2>1 DEF refocus, Fetches
<1>7. CASE profileReceived
  <2>1. fetch' \in Fetches /\ ~fetch'.rolls /\ fetch.for \in Users
    BY <1>7 DEF profileReceived
  <2>2. /\ cached' = fetch.for /\ fetched' = fetched \cup {fetch.for}
        /\ UNCHANGED <<accounts, strays, mutations, signedIn>> /\ awaited' = FALSE
    BY <1>7 DEF profileReceived
  <2>3. \/ age' = 1 /\ owner' = fetch.for
        \/ UNCHANGED cookies
    BY <1>7 DEF profileReceived
  <2>4. /\ user' \in {user, fetch.for} /\ path' = path /\ splash' \in BOOLEAN
        /\ due' \in BOOLEAN
    BY <1>7 DEF profileReceived
  <2>5. SessionTypeOK'
    <3>1. /\ age' \in 1..5 /\ owner' \in Someone /\ user' \in Someone
          /\ signedIn' \in Someone /\ entering' \in Someone
      BY <2>1, <2>2, <2>3, <2>4
    <3>2. /\ accounts' \subseteq Users /\ path' \in Paths
          /\ leaving' \in {"no", "accepted", "refused"}
      BY <2>2, <2>4
    <3>3. /\ fetch' \in Fetches /\ cached' \in Someone
          /\ strays' \subseteq Users /\ fetched' \subseteq Users
      BY <2>1, <2>2
    <3>4. splash' \in BOOLEAN /\ due' \in BOOLEAN /\ awaited' \in BOOLEAN /\ admitted' \in BOOLEAN
      BY <2>2, <2>4
    <3> QED
      BY <3>1, <3>2, <3>3, <3>4 DEF Fetches
  <2>6. SomebodyNamed'
    BY <2>1, <2>2, <2>3, <2>4
  <2>7. CachedIsFetched' /\ ShownIsKnown'
    BY <2>1, <2>2, <2>3, <2>4
  <2> QED
    BY <2>5, <2>6, <2>7
<1>8. CASE profileFailed
  <2>1. fetch' \in Fetches /\ (fetch'.rolls => fetch'.for \in Users)
    <3>1. [fetch EXCEPT !.status = "waiting"] \in Fetches
      BY DEF Fetches
    <3>2. [fetch EXCEPT !.status = "waiting"].rolls = fetch.rolls
          /\ [fetch EXCEPT !.status = "waiting"].for = fetch.for
      BY DEF Fetches
    <3> QED
      BY <1>8, <3>1, <3>2 DEF profileFailed
  <2> QED
    BY <1>8, <2>1 DEF profileFailed, Fetches
<1>9. CASE retry
  <2>1. fetch' \in Fetches /\ (fetch'.rolls => fetch'.for \in Users)
    BY <1>9, RequestType DEF retry
  <2> QED
    BY <1>9, <2>1 DEF retry, Fetches
<1>10. ASSUME NEW u \in strays, strayArrives(u) PROVE SessionIInv'
  BY <1>10 DEF strayArrives, Fetches
<1>11. ASSUME NEW p \in Paths, navigate(p) PROVE SessionIInv'
  BY <1>11 DEF navigate, Fetches
<1>12. ASSUME NEW u \in Users, login(u) \/ register(u) PROVE SessionIInv'
  <2>1. /\ entering' = u /\ admitted' \in BOOLEAN /\ accounts' \subseteq Users
        /\ UNCHANGED <<cookies, shown, query, leaving, signedIn>>
    BY <1>12 DEF login, register, Enter, loginService, registerService
  <2> QED
    BY <2>1 DEF Fetches
<1>13. CASE redirect
  BY <1>13 DEF redirect, Fetches
<1>14. CASE entered
  <2>1. /\ entering \in Users /\ age' = 1 /\ owner' = entering
        /\ user' = entering /\ signedIn' = entering /\ path' = "shop"
        /\ entering' = NoUser /\ admitted' = FALSE
        /\ UNCHANGED <<accounts, splash, query, leaving>>
    BY <1>14 DEF entered
  <2>2. due' \in BOOLEAN
    BY <1>14 DEF entered
  <2>3. SessionTypeOK'
    <3>1. /\ age' \in 1..5 /\ owner' \in Someone /\ user' \in Someone
          /\ signedIn' \in Someone /\ entering' \in Someone
      BY <2>1
    <3>2. /\ accounts' \subseteq Users /\ path' \in Paths
          /\ leaving' \in {"no", "accepted", "refused"}
      BY <2>1
    <3>3. /\ fetch' \in Fetches /\ cached' \in Someone
          /\ strays' \subseteq Users /\ fetched' \subseteq Users
      BY <2>1
    <3>4. splash' \in BOOLEAN /\ due' \in BOOLEAN /\ awaited' \in BOOLEAN /\ admitted' \in BOOLEAN
      BY <2>1, <2>2
    <3> QED
      BY <3>1, <3>2, <3>3, <3>4 DEF Fetches
  <2>4. SomebodyNamed'
    BY <2>1, <2>2
  <2>5. CachedIsFetched' /\ ShownIsKnown'
    BY <2>1, <2>2
  <2> QED
    BY <2>3, <2>4, <2>5
<1>15. CASE notEntered
  BY <1>15 DEF notEntered, Fetches
<1>16. CASE logout
  BY <1>16 DEF logout, Fetches
<1>17. CASE loggedOut
  BY <1>17 DEF loggedOut, Fetches
<1>18. CASE logoutFailed
  BY <1>18 DEF logoutFailed, Fetches
<1>19. CASE UNCHANGED sessionVars
  BY <1>19 DEF sessionVars, Fetches
<1> QED
  BY <1>4, <1>5, <1>6, <1>7, <1>8, <1>9, <1>10, <1>11, <1>12, <1>13, <1>14, <1>15,
     <1>16, <1>17, <1>18, <1>19 DEF SessionNext, Answered

LEMMA AlwaysSession == SessionSpec => []SessionIInv
  BY InitSession, StepSession, PTL DEF SessionSpec

\* The variables of the session keep their types for any set of users.
THEOREM SessionKeepsTypes == SessionSpec => []SessionTypeOK
  BY AlwaysSession, PTL DEF SessionIInv

\* Whatever the order of answers, sign-ins and sign-outs, the shop shows nobody,
\* the user who signed in here, or one whose profile this tab received.
THEOREM SessionShowsKnown == SessionSpec => []ShownIsKnown
  BY AlwaysSession, PTL DEF SessionIInv
-----------------------------------------------------------------------------
(* Cart and checkout.                                                      *)

\* The order service knows only submissions that were sent.
SentIsUnderWay ==
  \A s \in Submissions :
    server[s] # "idle" => client[s] \in {"waiting", "placed", "failed", "gone"}

\* What a submission under way took is still in the cart, or the cart is empty:
\* its success clears only what it ordered.
TakenIsInCart ==
  \A s \in UnderWay : \A p \in Products \ hurried :
    items[p] = 0 \/ contents[s][p] = items[p]

\* What is in the cart after a success was put there later.
RoundsGoOn ==
  \A s \in Submissions, p \in Products :
    /\ rounds[s][p] <= round[p]
    /\ client[s] = "placed" /\ contents[s][p] > 0 => items[p] = 0 \/ rounds[s][p] < round[p]

\* Two submissions took the same things only if one was a repetition.
Begun == {s \in Submissions : client[s] \notin {"idle", "rejected"}}
BegunApart == \A s, t \in Begun : s # t /\ Shares(s, t) => s \in again \/ t \in again

CheckoutIInv ==
  TypeOK /\ SentIsUnderWay /\ TakenIsInCart /\ NothingLost /\ RoundsGoOn /\ BegunApart

LEMMA NothingType == Nothing \in [Products -> Nat]
  BY DEF Nothing

LEMMA InitCheckout == Init => CheckoutIInv
<1> SUFFICES ASSUME Init PROVE CheckoutIInv
  OBVIOUS
<1>1. TypeOK
  BY NothingType, CheckoutAssumption DEF Init, TypeOK
<1>2. Begun = {} /\ UnderWay = {}
  BY DEF Init, Begun, UnderWay
<1>3. RoundsGoOn /\ NothingLost /\ SentIsUnderWay
  BY DEF Init, Nothing, RoundsGoOn, NothingLost, SentIsUnderWay
<1> QED
  BY <1>1, <1>2, <1>3 DEF CheckoutIInv, TakenIsInCart, BegunApart

\* Every step keeps the types.
LEMMA StepCheckoutTypes == TypeOK /\ [Next]_vars => TypeOK'
<1> SUFFICES ASSUME TypeOK, [Next]_vars PROVE TypeOK'
  OBVIOUS
<1> USE NothingType, CheckoutAssumption
    DEF TypeOK, cart, submissions, history, Place, Advance
<1>1. ASSUME NEW p \in Products, NEW q \in Stocks, addItem(p, q) PROVE TypeOK'
  BY <1>1 DEF addItem
<1>2. ASSUME NEW p \in Products, NEW n \in 0..known[p], updateQuantity(p, n) PROVE TypeOK'
  BY <1>2 DEF updateQuantity
<1>3. CASE clearCart
  BY <1>3 DEF clearCart
<1>4. CASE proceed
  BY <1>4 DEF proceed
<1>5. CASE setUser
  BY <1>5 DEF setUser
<1>6. CASE leave
  BY <1>6 DEF leave
<1>7. CASE reload
  BY <1>7 DEF reload
<1>8. ASSUME NEW s \in Submissions, press(s) PROVE TypeOK'
  BY <1>8 DEF press
<1>9. ASSUME NEW s \in Submissions, reject(s) PROVE TypeOK'
  BY <1>9 DEF reject
<1>10. ASSUME NEW s \in Submissions, requireLogin(s) PROVE TypeOK'
  BY <1>10 DEF requireLogin
<1>11. ASSUME NEW s \in Submissions, send(s) PROVE TypeOK'
  BY <1>11 DEF send
<1>12. ASSUME NEW s \in Submissions, forward(s) PROVE TypeOK'
  BY <1>12 DEF forward
<1>13. ASSUME NEW s \in Submissions, createOrder(s) PROVE TypeOK'
  BY <1>13 DEF createOrder
<1>14. ASSUME NEW s \in Submissions, orderPlaced(s) PROVE TypeOK'
  BY <1>14 DEF orderPlaced
<1>15. ASSUME NEW s \in Submissions, orderFailed(s) PROVE TypeOK'
  BY <1>15 DEF orderFailed
<1>16. CASE UNCHANGED vars
  BY <1>16 DEF vars
<1> QED
  BY <1>1, <1>2, <1>3, <1>4, <1>5, <1>6, <1>7, <1>8, <1>9, <1>10, <1>11, <1>12,
     <1>13, <1>14, <1>15, <1>16 DEF Next, CartPage

LEMMA StepSent == CheckoutIInv /\ [Next]_vars => SentIsUnderWay'
<1> SUFFICES ASSUME CheckoutIInv, [Next]_vars PROVE SentIsUnderWay'
  OBVIOUS
<1>0. /\ client \in [Submissions -> {"idle", "anonymous", "validating", "rejected",
                                     "waiting", "placed", "failed", "gone"}]
      /\ server \in [Submissions -> {"idle", "sent", "working", "created", "refused"}]
      /\ SentIsUnderWay
  BY DEF CheckoutIInv, TypeOK
<1> USE <1>0 DEF SentIsUnderWay, UnderWay, cart, submissions, history, Place, Advance
<1>1. ASSUME UNCHANGED <<client, server>> PROVE SentIsUnderWay'
  BY <1>1
<1>2. ASSUME NEW p \in Products, NEW q \in Stocks, addItem(p, q) PROVE SentIsUnderWay'
  BY <1>1, <1>2 DEF addItem
<1>3. CASE CartPage \/ setUser \/ leave
  BY <1>1, <1>3 DEF CartPage, updateQuantity, clearCart, proceed, setUser, leave
<1>4. CASE reload
  BY <1>4 DEF reload
<1>5. ASSUME NEW s \in Submissions, press(s) PROVE SentIsUnderWay'
  BY <1>5 DEF press
<1>6. ASSUME NEW s \in Submissions, reject(s) \/ requireLogin(s) PROVE SentIsUnderWay'
  BY <1>6 DEF reject, requireLogin
<1>7. ASSUME NEW s \in Submissions, send(s) PROVE SentIsUnderWay'
  BY <1>7 DEF send
<1>8. ASSUME NEW s \in Submissions, forward(s) \/ createOrder(s) PROVE SentIsUnderWay'
  BY <1>8 DEF forward, createOrder
<1>9. ASSUME NEW s \in Submissions, orderPlaced(s) \/ orderFailed(s) PROVE SentIsUnderWay'
  BY <1>9 DEF orderPlaced, orderFailed
<1>10. CASE UNCHANGED vars
  BY <1>1, <1>10 DEF vars
<1> QED
  BY <1>2, <1>3, <1>4, <1>5, <1>6, <1>7, <1>8, <1>9, <1>10 DEF Next

\* A change of one product while a submission is under way marks the product;
\* otherwise it is as wanted.
LEMMA PlaceKeeps ==
  ASSUME CheckoutIInv, NEW p \in Products, NEW n \in Nat, Place(p, n)
  PROVE  TakenIsInCart' /\ NothingLost'
<1>1. /\ items \in [Products -> Nat] /\ wanted \in [Products -> Nat]
      /\ UNCHANGED <<client, contents, server>>
      /\ items' = [items EXCEPT ![p] = n] /\ wanted' = [wanted EXCEPT ![p] = n]
      /\ UnderWay' = UnderWay /\ Created' = Created
  BY DEF CheckoutIInv, TypeOK, Place, submissions, UnderWay, Created
<1>2. \A q \in Products \ {p} :
        /\ items'[q] = items[q] /\ wanted'[q] = wanted[q]
        /\ q \in hurried' <=> q \in hurried
  BY <1>1 DEF Place
<1>3. items'[p] = n /\ wanted'[p] = n /\ (UnderWay # {} => p \in hurried')
  BY <1>1 DEF Place
<1>4. TakenIsInCart'
  BY <1>1, <1>2, <1>3 DEF CheckoutIInv, TakenIsInCart
<1>5. NothingLost'
  <2> SUFFICES ASSUME NEW q \in Products \ hurried'
               PROVE  \/ items'[q] = wanted'[q]
                      \/ items'[q] = 0 /\ \E s \in Created' : contents'[s][q] = wanted'[q]
    BY DEF NothingLost
  <2>1. CASE q = p
    BY <1>3, <2>1
  <2>2. CASE q # p
    BY <1>1, <1>2, <2>2 DEF CheckoutIInv, NothingLost
  <2> QED
    BY <2>1, <2>2
<1> QED
  BY <1>4, <1>5

LEMMA StepNothingLost == CheckoutIInv /\ [Next]_vars => TakenIsInCart' /\ NothingLost'
<1> SUFFICES ASSUME CheckoutIInv, [Next]_vars PROVE TakenIsInCart' /\ NothingLost'
  OBVIOUS
<1>0. /\ items \in [Products -> Nat] /\ known \in [Products -> Nat]
      /\ wanted \in [Products -> Nat] /\ contents \in [Submissions -> [Products -> Nat]]
      /\ client \in [Submissions -> {"idle", "anonymous", "validating", "rejected",
                                     "waiting", "placed", "failed", "gone"}]
      /\ server \in [Submissions -> {"idle", "sent", "working", "created", "refused"}]
      /\ SentIsUnderWay /\ TakenIsInCart /\ NothingLost
  BY DEF CheckoutIInv, TypeOK
<1> USE <1>0 DEF cart, submissions, history, Advance
\* Nothing is taken from the cart, nothing starts, and no order disappears.
<1>1. ASSUME UnderWay' \subseteq UnderWay, Created \subseteq Created',
             UNCHANGED <<items, contents, wanted, hurried>>
      PROVE  TakenIsInCart' /\ NothingLost'
  BY <1>1 DEF TakenIsInCart, NothingLost
\* The cart is emptied and what was wanted with it.
<1>2. ASSUME items' = Nothing, wanted' = Nothing PROVE TakenIsInCart' /\ NothingLost'
  BY <1>2 DEF TakenIsInCart, NothingLost, Nothing
<1>3. ASSUME NEW p \in Products, NEW q \in Stocks, addItem(p, q)
      PROVE  TakenIsInCart' /\ NothingLost'
  <2> Place(p, items[p] + 1) /\ items[p] + 1 \in Nat
    BY <1>3 DEF addItem
  <2> QED
    BY PlaceKeeps
<1>4. ASSUME NEW p \in Products, NEW n \in 0..known[p], updateQuantity(p, n)
      PROVE  TakenIsInCart' /\ NothingLost'
  <2> Place(p, n) /\ n \in Nat
    BY <1>4 DEF updateQuantity
  <2> QED
    BY PlaceKeeps
<1>5. CASE clearCart \/ reload
  BY <1>2, <1>5 DEF clearCart, reload
<1>6. CASE proceed \/ setUser \/ leave \/ UNCHANGED vars
  BY <1>1, <1>6 DEF proceed, setUser, leave, vars, UnderWay, Created
<1>7. ASSUME NEW s \in Submissions, press(s) PROVE TakenIsInCart' /\ NothingLost'
  <2>1. /\ s \notin Created /\ UNCHANGED <<items, wanted, hurried, server>>
        /\ contents' = [contents EXCEPT ![s] = items]
    BY <1>7 DEF press, SentIsUnderWay, Created
  <2>2. UnderWay' \subseteq UnderWay \cup {s} /\ Created' = Created
    BY <1>7 DEF press, UnderWay, Created
  <2>3. contents'[s] = items /\ \A t \in Submissions \ {s} : contents'[t] = contents[t]
    BY <2>1
  <2>4. TakenIsInCart'
    BY <2>1, <2>2, <2>3 DEF TakenIsInCart, UnderWay
  <2>5. NothingLost'
    BY <2>1, <2>2, <2>3 DEF NothingLost, Created
  <2> QED
    BY <2>4, <2>5
<1>8. ASSUME NEW s \in Submissions, reject(s) \/ requireLogin(s) \/ orderFailed(s)
      PROVE  TakenIsInCart' /\ NothingLost'
  <2>1. UnderWay' \subseteq UnderWay /\ Created' = Created
        /\ UNCHANGED <<items, contents, wanted, hurried>>
    BY <1>8 DEF reject, requireLogin, orderFailed, UnderWay, Created
  <2> QED
    BY <1>1, <2>1
<1>9. ASSUME NEW s \in Submissions, send(s) PROVE TakenIsInCart' /\ NothingLost'
  <2>1. UnderWay' \subseteq UnderWay /\ UNCHANGED <<items, contents, wanted, hurried>>
    BY <1>9 DEF send, UnderWay
  <2>2. Created \subseteq Created'
    BY <1>9 DEF send, SentIsUnderWay, Created
  <2> QED
    BY <1>1, <2>1, <2>2
<1>10. ASSUME NEW s \in Submissions, forward(s) \/ createOrder(s)
       PROVE  TakenIsInCart' /\ NothingLost'
  <2>1. UnderWay' \subseteq UnderWay /\ UNCHANGED <<items, contents, wanted, hurried>>
    BY <1>10 DEF forward, createOrder, UnderWay
  <2>2. Created \subseteq Created'
    BY <1>10 DEF forward, createOrder, Created
  <2> QED
    BY <1>1, <2>1, <2>2
<1>11. ASSUME NEW s \in Submissions, orderPlaced(s) PROVE TakenIsInCart' /\ NothingLost'
  <2>1. /\ s \in UnderWay /\ s \in Created /\ items' = Nothing
        /\ UNCHANGED <<contents, server, wanted, hurried>>
    BY <1>11 DEF orderPlaced, UnderWay, Created
  <2>2. TakenIsInCart'
    BY <2>1 DEF TakenIsInCart, Nothing
  <2>3. Created' = Created /\ \A p \in Products : items'[p] = 0
    BY <2>1 DEF Created, Nothing
  <2>4. ASSUME NEW p \in Products \ hurried
        PROVE  items'[p] = wanted[p] \/ \E t \in Created : contents[t][p] = wanted[p]
    <3>1. items[p] = 0 \/ contents[s][p] = items[p]
      BY <2>1 DEF TakenIsInCart
    <3>2. items[p] = wanted[p] \/ \E t \in Created : contents[t][p] = wanted[p]
      BY DEF NothingLost
    <3> QED
      BY <2>1, <2>3, <3>1, <3>2
  <2>5. NothingLost'
    BY <2>1, <2>3, <2>4 DEF NothingLost
  <2> QED
    BY <2>2, <2>5
<1> QED
  BY <1>3, <1>4, <1>5, <1>6, <1>7, <1>8, <1>9, <1>10, <1>11 DEF Next, CartPage

\* Two submissions keep apart unless one of them is pressed.
LEMMA StepApart == CheckoutIInv /\ [Next]_vars => RoundsGoOn' /\ BegunApart'
<1> SUFFICES ASSUME CheckoutIInv, [Next]_vars PROVE RoundsGoOn' /\ BegunApart'
  OBVIOUS
<1>0. /\ items \in [Products -> Nat] /\ known \in [Products -> Nat]
      /\ round \in [Products -> Nat]
      /\ contents \in [Submissions -> [Products -> Nat]]
      /\ rounds \in [Submissions -> [Products -> Nat]]
      /\ client \in [Submissions -> {"idle", "anonymous", "validating", "rejected",
                                     "waiting", "placed", "failed", "gone"}]
      /\ RoundsGoOn /\ BegunApart
  BY DEF CheckoutIInv, TypeOK
<1> USE <1>0 DEF cart, submissions, history, Advance
\* Nothing was pressed.
<1>1. ASSUME Begun' \subseteq Begun, UNCHANGED <<contents, rounds, again>>
      PROVE  BegunApart'
  BY <1>1 DEF BegunApart, Shares
\* Nothing is put into an empty place and nothing succeeds.
<1>2. ASSUME UNCHANGED <<contents, rounds, round>>,
             \A p \in Products : items[p] = 0 => items'[p] = 0,
             \A s \in Submissions : client'[s] = "placed" => client[s] = "placed" \/ items' = Nothing
      PROVE  RoundsGoOn'
  <2>1. items' = Nothing => \A p \in Products : items'[p] = 0
    BY DEF Nothing
  <2> QED
    BY <1>2, <2>1 DEF RoundsGoOn
<1>3. ASSUME NEW p \in Products, NEW q \in Stocks, addItem(p, q)
      PROVE  RoundsGoOn' /\ BegunApart'
  <2>1. /\ UNCHANGED <<client, contents, rounds, again>>
        /\ items' = [items EXCEPT ![p] = items[p] + 1]
        /\ \/ items[p] > 0 /\ round' = round
           \/ items[p] = 0 /\ round' = [round EXCEPT ![p] = @ + 1]
    BY <1>3 DEF addItem, Place
  <2>2. BegunApart'
    BY <1>1, <2>1 DEF Begun
  <2>3. \A r \in Products \ {p} : items'[r] = items[r] /\ round'[r] = round[r]
    BY <2>1
  <2>4. \/ round'[p] = round[p] /\ items[p] > 0
        \/ round'[p] = round[p] + 1
    BY <2>1
  <2>5. RoundsGoOn'
    <3> SUFFICES ASSUME NEW s \in Submissions, NEW r \in Products
                 PROVE  /\ rounds[s][r] <= round'[r]
                        /\ client[s] = "placed" /\ contents[s][r] > 0
                             => items'[r] = 0 \/ rounds[s][r] < round'[r]
      BY <2>1 DEF RoundsGoOn
    <3>1. rounds[s][r] \in Nat /\ round[r] \in Nat /\ items[r] \in Nat
      OBVIOUS
    <3>2. rounds[s][r] <= round[r]
      BY DEF RoundsGoOn
    <3>3. client[s] = "placed" /\ contents[s][r] > 0 => items[r] = 0 \/ rounds[s][r] < round[r]
      BY DEF RoundsGoOn
    <3>4. CASE r = p
      BY <2>4, <3>1, <3>2, <3>3, <3>4
    <3>5. CASE r # p
      BY <2>3, <3>2, <3>3, <3>5
    <3> QED
      BY <3>4, <3>5
  <2> QED
    BY <2>2, <2>5
<1>4. ASSUME NEW p \in Products, NEW n \in 0..known[p], updateQuantity(p, n)
      PROVE  RoundsGoOn' /\ BegunApart'
  <2>1. /\ UNCHANGED <<client, contents, rounds, again, round>> /\ items[p] > 0
        /\ items' = [items EXCEPT ![p] = n]
    BY <1>4 DEF updateQuantity, Place
  <2> QED
    BY <1>1, <1>2, <2>1 DEF Begun
<1>5. CASE clearCart
  <2>1. UNCHANGED <<client, contents, rounds, again, round>> /\ items' = Nothing
    BY <1>5 DEF clearCart
  <2> QED
    BY <1>1, <1>2, <2>1 DEF Begun, Nothing
<1>6. CASE reload
  <2>1. /\ UNCHANGED <<contents, rounds, again, round>> /\ items' = Nothing
        /\ \A s \in Submissions : client'[s] = IF s \in UnderWay THEN "gone" ELSE client[s]
    BY <1>6 DEF reload
  <2> QED
    BY <1>1, <1>2, <2>1 DEF Begun, Nothing, UnderWay
<1>7. CASE proceed \/ setUser \/ leave \/ UNCHANGED vars
  <2>1. UNCHANGED <<items, client, contents, rounds, again, round>>
    BY <1>7 DEF proceed, setUser, leave, vars
  <2> QED
    BY <1>1, <1>2, <2>1 DEF Begun
<1>8. ASSUME NEW s \in Submissions, press(s) PROVE RoundsGoOn' /\ BegunApart'
  <2>1. /\ UNCHANGED <<items, round>> /\ client[s] = "idle"
        /\ client'[s] # "placed"
        /\ contents'[s] = items /\ rounds'[s] = round
        /\ again' = IF Repeats THEN again \cup {s} ELSE again
    BY <1>8 DEF press
  <2>2. \A t \in Submissions \ {s} :
          client'[t] = client[t] /\ contents'[t] = contents[t] /\ rounds'[t] = rounds[t]
    BY <1>8 DEF press
  <2>3. RoundsGoOn'
    BY <2>1, <2>2 DEF RoundsGoOn
  <2>4. ASSUME NEW t \in Begun' \ {s}, NEW p \in Products, s \notin again',
               contents'[s][p] > 0, contents'[t][p] > 0, rounds'[s][p] = rounds'[t][p]
        PROVE  FALSE
    <3>1. t \in Begun /\ UnderWay = {} /\ client[t] \notin {"failed", "gone"}
      BY <2>1, <2>2, <2>4 DEF Begun, Repeats
    <3>2. client[t] = "placed"
      BY <3>1 DEF Begun, UnderWay
    <3>3. contents[t][p] > 0 /\ items[p] > 0 /\ rounds[t][p] = round[p]
      BY <2>1, <2>2, <2>4, <3>1 DEF Begun
    <3>4. items[p] = 0 \/ rounds[t][p] < round[p]
      BY <3>1, <3>2, <3>3 DEF RoundsGoOn, Begun
    <3> QED
      BY <3>3, <3>4
  <2>5. BegunApart'
    <3> SUFFICES ASSUME NEW t \in Begun', NEW u \in Begun', t # u, Shares(t, u)'
                 PROVE  t \in again' \/ u \in again'
      BY DEF BegunApart
    <3>1. PICK p \in Products :
            contents'[t][p] > 0 /\ contents'[u][p] > 0 /\ rounds'[t][p] = rounds'[u][p]
      BY DEF Shares
    <3>2. CASE t = s
      BY <2>4, <3>1, <3>2
    <3>3. CASE u = s
      BY <2>4, <3>1, <3>3
    <3>4. CASE t # s /\ u # s
      <4>1. t \in Begun /\ u \in Begun /\ Shares(t, u)
        BY <2>2, <3>1, <3>4 DEF Begun, Shares
      <4> QED
        BY <2>1, <4>1 DEF BegunApart
    <3> QED
      BY <3>2, <3>3, <3>4
  <2> QED
    BY <2>3, <2>5
<1>9. ASSUME NEW s \in Submissions,
             reject(s) \/ requireLogin(s) \/ send(s) \/ forward(s) \/ createOrder(s) \/ orderFailed(s)
      PROVE  RoundsGoOn' /\ BegunApart'
  <2>1. /\ UNCHANGED <<items, contents, rounds, again, round>>
        /\ \A t \in Submissions :
             \/ client'[t] = client[t]
             \/ client[t] \notin {"idle", "rejected"} /\ client'[t] # "placed"
    BY <1>9 DEF reject, requireLogin, send, forward, createOrder, orderFailed
  <2> QED
    BY <1>1, <1>2, <2>1 DEF Begun
<1>10. ASSUME NEW s \in Submissions, orderPlaced(s) PROVE RoundsGoOn' /\ BegunApart'
  <2>1. /\ UNCHANGED <<contents, rounds, again, round>> /\ items' = Nothing
        /\ \A t \in Submissions : client'[t] = client[t] \/ client[t] = "waiting"
    BY <1>10 DEF orderPlaced
  <2> QED
    BY <1>1, <1>2, <2>1 DEF Begun, Nothing
<1> QED
  BY <1>3, <1>4, <1>5, <1>6, <1>7, <1>8, <1>9, <1>10 DEF Next, CartPage

LEMMA AlwaysCheckout == Spec => []CheckoutIInv
<1>1. CheckoutIInv /\ [Next]_vars => CheckoutIInv'
  BY StepCheckoutTypes, StepSent, StepNothingLost, StepApart DEF CheckoutIInv
<1> QED
  BY InitCheckout, <1>1, PTL DEF Spec

\* The variables of cart and checkout keep their types.
THEOREM CheckoutTypeOK == Spec => []TypeOK
  BY AlwaysCheckout, PTL DEF CheckoutIInv

\* What the customer chose is in the cart or in an order, through timeouts,
\* reloads and repeated submissions, unless it was changed while one was under
\* way.
THEOREM CheckoutNothingLost == Spec => []NothingLost
  BY AlwaysCheckout, PTL DEF CheckoutIInv

\* Only pressing the button again, while a submission is under way or after an
\* error, orders the same things twice.
THEOREM CheckoutOrderedOnce == Spec => []OrderedOnce
<1>1. CheckoutIInv => OrderedOnce
  <2> SUFFICES ASSUME CheckoutIInv PROVE OrderedOnce
    OBVIOUS
  <2>1. Created \subseteq Begun
    BY DEF CheckoutIInv, SentIsUnderWay, Created, Begun
  <2> QED
    BY <2>1 DEF CheckoutIInv, BegunApart, OrderedOnce, Created
<1> QED
  BY <1>1, AlwaysCheckout, PTL
=============================================================================
