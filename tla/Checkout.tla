------------------------------- MODULE Checkout -------------------------------
(***************************************************************************)
(* Cart and checkout of the web shop, from the browser through the gateway *)
(* to the order service: contexts/cart.context.tsx, the cart and checkout  *)
(* pages, useCreateOrder (hooks/api/orders.ts) and the proxy of the        *)
(* gateway (middleware/proxy.ts), which gives up after 10 s while the      *)
(* order service goes on.                                                  *)
(*                                                                         *)
(* The cart lives in one tab.  A submission validates the form, sends the  *)
(* order and waits; leaving the page does not stop it, and a page mounted  *)
(* anew knows nothing of it.                                               *)
(***************************************************************************)
EXTENDS Naturals

CONSTANTS
  Products,
  Stocks,        \* stock numbers a product card may show
  Submissions,   \* presses of "Place Order"; each has an idempotency key of its own
  NoSubmission,
  MaxEdits       \* bound: changes the customer makes to the cart

ASSUME CheckoutAssumption ==
  /\ Stocks \subseteq Nat \ {0}
  /\ NoSubmission \notin Submissions
  /\ MaxEdits \in Nat

VARIABLES
  hasUser,          \* is somebody signed in?
  page,             \* "browsing", or "checkout" while that page is mounted
  items, known,     \* the cart: quantity of each product, stock stored with it
  here,             \* submissions pressed on the page as it is mounted now
  latest,           \* the last of them that was sent
  client, contents, \* per submission: its progress and the items it took
  server,           \* per submission: the order service's side
  edits,
  \* History:
  wanted,           \* the quantity the customer last chose
  hurried,          \* products changed while a submission was under way
  round,            \* how often a product was put into an empty place
  rounds,           \* per submission: the rounds of its items
  again             \* submissions made while another was under way or after
                    \* one was answered with an error

cart == <<items, known>>
submissions == <<here, latest, client, contents, server>>
history == <<wanted, hurried, round, rounds, again>>
vars == <<hasUser, page, cart, submissions, edits, history>>

Nothing == [p \in Products |-> 0]

Init ==
  /\ hasUser \in BOOLEAN
  /\ page = "browsing"
  /\ items = Nothing /\ known = Nothing
  /\ here = {} /\ latest = NoSubmission
  /\ client = [s \in Submissions |-> "idle"]
  /\ contents = [s \in Submissions |-> Nothing]
  /\ server = [s \in Submissions |-> "idle"]
  /\ edits = 0
  /\ wanted = Nothing /\ hurried = {} /\ round = Nothing
  /\ rounds = [s \in Submissions |-> Nothing]
  /\ again = {}

UnderWay == {s \in Submissions : client[s] \in {"anonymous", "validating", "waiting"}}
Advance(s, label) == client' = [client EXCEPT ![s] = label]
-----------------------------------------------------------------------------
(* The cart.                                                               *)
Place(p, n) ==
  /\ items' = [items EXCEPT ![p] = n]
  /\ wanted' = [wanted EXCEPT ![p] = n]
  /\ hurried' = IF UnderWay = {} THEN hurried \ {p} ELSE hurried \cup {p}
  /\ edits < MaxEdits /\ edits' = edits + 1
  /\ UNCHANGED <<hasUser, page, submissions, rounds, again>>

\* "Add to Cart" on a product card, which only a user sees; q is the stock it
\* shows.  A product in the cart keeps the stock stored when it was added.
addItem(p, q) ==
  /\ page = "browsing" /\ hasUser
  /\ items[p] + 1 <= q
  /\ Place(p, items[p] + 1)
  /\ \/ items[p] > 0 /\ UNCHANGED <<known, round>>
     \/ /\ items[p] = 0
        /\ known' = [known EXCEPT ![p] = q]
        /\ round' = [round EXCEPT ![p] = @ + 1]

\* The quantity field and buttons of the cart page; a quantity below one takes
\* the product out, as does removeItem.
updateQuantity(p, n) ==
  /\ page = "browsing"
  /\ items[p] > 0 /\ n # items[p] /\ n <= known[p]
  /\ Place(p, n)
  /\ known' = IF n = 0 THEN [known EXCEPT ![p] = 0] ELSE known
  /\ UNCHANGED round

\* "Clear Cart".
clearCart ==
  /\ page = "browsing" /\ items # Nothing
  /\ items' = Nothing /\ known' = Nothing
  /\ wanted' = Nothing
  /\ hurried' = {}
  /\ edits < MaxEdits /\ edits' = edits + 1
  /\ UNCHANGED <<hasUser, page, submissions, round, rounds, again>>

\* Sign-in and sign-out leave the cart alone; the checkout page offers the latter.
setUser ==
  /\ page = "browsing" \/ hasUser
  /\ hasUser' = ~hasUser
  /\ UNCHANGED <<page, cart, submissions, edits, history>>

\* "Proceed to Checkout" mounts the page with a mutation of its own.
proceed ==
  /\ page = "browsing" /\ items # Nothing
  /\ page' = "checkout"
  /\ here' = {} /\ latest' = NoSubmission
  /\ UNCHANGED <<hasUser, cart, client, contents, server, edits, history>>

leave ==
  /\ page = "checkout"
  /\ page' = "browsing"
  /\ here' = {} /\ latest' = NoSubmission
  /\ UNCHANGED <<hasUser, cart, client, contents, server, edits, history>>

\* The tab is reloaded: cart and promises are gone, the orders sent are not.
reload ==
  /\ page' = "browsing"
  /\ items' = Nothing /\ known' = Nothing /\ here' = {} /\ latest' = NoSubmission
  /\ client' = [s \in Submissions |-> IF s \in UnderWay THEN "gone" ELSE client[s]]
  /\ wanted' = Nothing /\ hurried' = {}
  /\ UNCHANGED <<hasUser, contents, server, edits, round, rounds, again>>
-----------------------------------------------------------------------------
(* Submissions.                                                            *)
isPending == latest # NoSubmission /\ client[latest] = "waiting"

Repeats == UnderWay # {} \/ \E s \in Submissions : client[s] \in {"failed", "gone"}

\* "Place Order": the handler of this rendering, with its user and items,
\* starts to validate the form.
press(s) ==
  /\ page = "checkout" /\ items # Nothing /\ ~isPending
  /\ client[s] = "idle"
  /\ Advance(s, IF hasUser THEN "validating" ELSE "anonymous")
  /\ contents' = [contents EXCEPT ![s] = items]
  /\ here' = here \cup {s}
  /\ rounds' = [rounds EXCEPT ![s] = round]
  /\ again' = IF Repeats THEN again \cup {s} ELSE again
  /\ UNCHANGED <<hasUser, page, cart, latest, server, edits, wanted, hurried, round>>

\* The form is invalid.
reject(s) ==
  /\ client[s] \in {"validating", "anonymous"}
  /\ Advance(s, "rejected")
  /\ UNCHANGED <<hasUser, page, cart, here, latest, contents, server, edits, history>>

\* Nobody is signed in: on to the login page.
requireLogin(s) ==
  /\ client[s] = "anonymous"
  /\ Advance(s, "rejected")
  /\ page' = "browsing" /\ here' = {} /\ latest' = NoSubmission
  /\ UNCHANGED <<hasUser, cart, contents, server, edits, history>>

\* mutateAsync posts the order to the gateway.
send(s) ==
  /\ client[s] = "validating"
  /\ Advance(s, "waiting")
  /\ server' = [server EXCEPT ![s] = "sent"]
  /\ latest' = IF s \in here THEN s ELSE latest
  /\ UNCHANGED <<hasUser, page, cart, here, contents, edits, history>>

\* The gateway passes it on, with its key, and waits for 10 s; it does so as
\* well when the browser has gone.
forward(s) ==
  /\ server[s] = "sent"
  /\ server' = [server EXCEPT ![s] = "working"]
  /\ UNCHANGED <<hasUser, page, cart, here, latest, client, contents, edits, history>>

\* createOrder commits the order, or refuses it or fails.
createOrder(s) ==
  /\ server[s] = "working"
  /\ \E o \in {"created", "refused"} : server' = [server EXCEPT ![s] = o]
  /\ UNCHANGED <<hasUser, page, cart, here, latest, client, contents, edits, history>>

Wrong_orderPlaced(s) ==
  /\ client[s] = "waiting" /\ server[s] = "created"
  /\ Advance(s, "placed")
  /\ page' = "browsing" /\ here' = {} /\ latest' = NoSubmission
  /\ UNCHANGED <<hasUser, cart, contents, server, edits, history>>

\* 202: the cart is cleared as it is now, and on to the profile page.
orderPlaced(s) ==
  /\ client[s] = "waiting" /\ server[s] = "created"
  /\ Advance(s, "placed")
  /\ items' = Nothing /\ known' = Nothing
  /\ page' = "browsing" /\ here' = {} /\ latest' = NoSubmission
  /\ UNCHANGED <<hasUser, contents, server, edits, history>>

Wrong_orderFailed(s) ==
  /\ client[s] = "waiting"
  /\ Advance(s, "failed")
  /\ items' = Nothing /\ known' = Nothing
  /\ UNCHANGED <<hasUser, page, here, latest, contents, server, edits, history>>

\* An error of the order service, 504 after the gateway's timeout, 502, or no
\* connection: whatever became of the order, "Please try again".
orderFailed(s) ==
  /\ client[s] = "waiting"
  /\ Advance(s, "failed")
  /\ UNCHANGED <<hasUser, page, cart, here, latest, contents, server, edits, history>>

CartPage ==
  \/ \E p \in Products : \E n \in 0..known[p] : updateQuantity(p, n)
  \/ clearCart \/ proceed

Next ==
  \/ \E p \in Products, q \in Stocks : addItem(p, q)
  \/ CartPage \/ setUser \/ leave \/ reload
  \/ \E s \in Submissions :
       \/ press(s) \/ reject(s) \/ requireLogin(s) \/ send(s)
       \/ forward(s) \/ createOrder(s) \/ orderPlaced(s) \/ orderFailed(s)

Spec == Init /\ [][Next]_vars
-----------------------------------------------------------------------------
TypeOK ==
  /\ hasUser \in BOOLEAN
  /\ page \in {"browsing", "checkout"}
  /\ items \in [Products -> Nat] /\ known \in [Products -> Nat]
  /\ here \subseteq Submissions /\ latest \in here \cup {NoSubmission}
  /\ client \in [Submissions -> {"idle", "anonymous", "validating", "rejected",
                                 "waiting", "placed", "failed", "gone"}]
  /\ contents \in [Submissions -> [Products -> Nat]]
  /\ server \in [Submissions -> {"idle", "sent", "working", "created", "refused"}]
  /\ edits \in 0..MaxEdits
  /\ wanted \in [Products -> Nat] /\ round \in [Products -> Nat]
  /\ hurried \subseteq Products
  /\ rounds \in [Submissions -> [Products -> Nat]]
  /\ again \subseteq Submissions

Created == {s \in Submissions : server[s] = "created"}

\* What the customer put into the cart is in the cart or in an order, through
\* failed, timed-out and repeated submissions; unless it was changed while a
\* submission was under way, whose success clears it unordered.
NothingLost ==
  \A p \in Products \ hurried :
    \/ items[p] = wanted[p]
    \/ items[p] = 0 /\ \E s \in Created : contents[s][p] = wanted[p]

Shares(s, t) ==
  \E p \in Products :
    contents[s][p] > 0 /\ contents[t][p] > 0 /\ rounds[s][p] = rounds[t][p]

\* The same things are ordered twice only by pressing the button again while a
\* submission is under way or after an error: never after a success.
OrderedOnce ==
  \A s, t \in Created : s # t /\ Shares(s, t) => s \in again \/ t \in again
=============================================================================
