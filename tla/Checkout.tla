------------------------------ MODULE Checkout ------------------------------
(***************************************************************************)
(* From the decision to subscribe to a Checkout Session at Stripe.  Every  *)
(* account has at most one Customer, created at its first checkout and     *)
(* recorded after Stripe has answered; requests of one reader overlap, and *)
(* end anywhere.  What Stripe does with a Session, and the access that an  *)
(* event gives or takes, is seen from here only as it comes about.         *)
(***************************************************************************)
EXTENDS Naturals, Sequences

CONSTANTS
    Checkouts,          \* requests that start a checkout
    Buyers,             \* the accounts
    MaxCustomers,       \* bound: Customers created at Stripe
    MaxSessions         \* bound: Sessions created at Stripe

ASSUME CheckoutAssumption == Buyers # {} /\ MaxCustomers \in Nat /\ MaxSessions \in Nat

VARIABLES
    customers,  \* Stripe's Customers, in the order created: the account each was created for
    mapping,    \* identity.billing_customers: the Customer of each account, 0 if it has none
    sessions,   \* Stripe's Checkout Sessions
    entitled,   \* the accounts with access
    checkout    \* the requests in progress

checkoutVars == <<customers, mapping, sessions, entitled, checkout>>

Customer == 1..MaxCustomers
NoCustomerYet == 0

Session == [buyer : Buyers, customer : Customer, state : {"open", "subscribed", "over"}]

CheckoutTypeOK ==
    /\ customers \in Seq(Buyers) /\ Len(customers) <= MaxCustomers
    /\ mapping \in [Buyers -> NoCustomerYet..Len(customers)]
    /\ sessions \in Seq(Session) /\ Len(sessions) <= MaxSessions
    /\ entitled \subseteq Buyers
    /\ checkout \in [Checkouts ->
         [pc : {"idle", "read", "create", "claim", "readback", "session"},
          buyer : Buyers, customer : NoCustomerYet..Len(customers)]]

CheckoutIdle == [pc |-> "idle", buyer |-> CHOOSE a \in Buyers : TRUE, customer |-> NoCustomerYet]

CheckoutInit ==
    /\ customers = <<>>
    /\ mapping = [a \in Buyers |-> NoCustomerYet]
    /\ sessions = <<>>
    /\ entitled = {}
    /\ checkout = [p \in Checkouts |-> CheckoutIdle]

Buyer(p) == checkout[p].buyer
Continues(p, pc, c) == checkout' = [checkout EXCEPT ![p].pc = pc, ![p].customer = c]

\* resolveCheckoutHandoff: "An entitled reader is refused", by what access is now.
ResolveHandoff(p) ==
    /\ checkout[p].pc = "idle"
    /\ \E a \in Buyers \ entitled :
         checkout' = [checkout EXCEPT ![p] = [CheckoutIdle EXCEPT !.pc = "read", !.buyer = a]]
    /\ UNCHANGED <<customers, mapping, sessions, entitled>>

\* resolveStripeCustomerId: the Customer the account has, or a new one.
ReadCustomerId(p) ==
    /\ checkout[p].pc = "read"
    /\ Continues(p, IF mapping[Buyer(p)] = NoCustomerYet THEN "create" ELSE "session", mapping[Buyer(p)])
    /\ UNCHANGED <<customers, mapping, sessions, entitled>>

\* MUTANT of CreateCustomer: a Customer is found by its e-mail, which two readers may share.
CreateCustomerByEmail(p) ==
    /\ checkout[p].pc = "create"
    /\ Len(customers) < MaxCustomers
    /\ customers' = IF customers = <<>> THEN <<Buyer(p)>> ELSE customers
    /\ Continues(p, "claim", 1)
    /\ UNCHANGED <<mapping, sessions, entitled>>

CreateCustomer(p) ==
    /\ checkout[p].pc = "create"
    /\ Len(customers) < MaxCustomers
    /\ customers' = Append(customers, Buyer(p))
    /\ Continues(p, "claim", Len(customers'))
    /\ UNCHANGED <<mapping, sessions, entitled>>

\* MUTANT of ClaimCustomerId: the Customer just created is used whoever won the row.
ClaimUsingOwn(p) ==
    LET a == Buyer(p)
    IN /\ checkout[p].pc = "claim"
       /\ mapping' = [mapping EXCEPT ![a] = IF @ = NoCustomerYet THEN checkout[p].customer ELSE @]
       /\ Continues(p, "session", checkout[p].customer)
       /\ UNCHANGED <<customers, sessions, entitled>>

\* claimCustomerId, the insert: on a conflict nothing is returned, and the row is read.
ClaimCustomerId(p) ==
    LET a == Buyer(p)
    IN /\ checkout[p].pc = "claim"
       /\ IF mapping[a] = NoCustomerYet
          THEN /\ mapping' = [mapping EXCEPT ![a] = checkout[p].customer]
               /\ Continues(p, "session", checkout[p].customer)
          ELSE Continues(p, "readback", NoCustomerYet) /\ UNCHANGED mapping
       /\ UNCHANGED <<customers, sessions, entitled>>

ReadBack(p) ==
    /\ checkout[p].pc = "readback"
    /\ Continues(p, "session", mapping[Buyer(p)])
    /\ UNCHANGED <<customers, mapping, sessions, entitled>>

\* stripe.checkout.sessions.create: the account in its metadata, the Customer beside it.
CreateSession(p) ==
    /\ checkout[p].pc = "session"
    /\ Len(sessions) < MaxSessions
    /\ sessions' = Append(sessions, [buyer |-> Buyer(p), customer |-> checkout[p].customer, state |-> "open"])
    /\ checkout' = [checkout EXCEPT ![p] = CheckoutIdle]
    /\ UNCHANGED <<customers, mapping, entitled>>

\* A call fails or the process dies; Stripe may have created what was asked of it.
CheckoutEnds(p) ==
    /\ checkout[p].pc # "idle"
    /\ checkout' = [checkout EXCEPT ![p] = CheckoutIdle]
    /\ \/ UNCHANGED customers
       \/ /\ checkout[p].pc = "create"
          /\ Len(customers) < MaxCustomers
          /\ customers' = Append(customers, Buyer(p))
    /\ UNCHANGED <<mapping, sessions, entitled>>

\* The reader pays or leaves the Session; a subscription ends.
SessionMoves(k) ==
    /\ \/ sessions[k].state = "open" /\ sessions' = [sessions EXCEPT ![k].state = "subscribed"]
       \/ sessions[k].state # "over" /\ sessions' = [sessions EXCEPT ![k].state = "over"]
    /\ UNCHANGED <<customers, mapping, entitled, checkout>>

\* resolveAccountId: the account an event's metadata names; an event that carries none is
\* the account's the Customer is mapped to.
AccountOf(k) == {sessions[k].buyer} \cup {a \in Buyers : mapping[a] = sessions[k].customer}

\* An event of a Session's subscription gives the account access, or takes it.
EventArrives(k) ==
    /\ sessions[k].state # "open"
    /\ \E a \in AccountOf(k) :
         entitled' = IF sessions[k].state = "subscribed" THEN entitled \cup {a} ELSE entitled \ {a}
    /\ UNCHANGED <<customers, mapping, sessions, checkout>>

CheckoutNext == \/ \E p \in Checkouts :
                     \/ ResolveHandoff(p) \/ ReadCustomerId(p) \/ CreateCustomer(p)
                     \/ ClaimCustomerId(p) \/ ReadBack(p) \/ CreateSession(p) \/ CheckoutEnds(p)
                \/ \E k \in DOMAIN sessions : SessionMoves(k) \/ EventArrives(k)

CheckoutSpec == CheckoutInit /\ [][CheckoutNext]_checkoutVars

-----------------------------------------------------------------------------

\* "Exactly one wins the row, and both callers end up using the winner": whatever first
\* checkouts race or die, every Session is on the Customer its account is mapped to, a
\* Customer created for that account.  So the two ways of telling whose an event is agree,
\* and what the reader bought is found under the Customer a reconciliation asks for.
SessionsOnMappedCustomer ==
    /\ \A k \in DOMAIN sessions : mapping[sessions[k].buyer] = sessions[k].customer
    /\ \A a \in Buyers : mapping[a] # NoCustomerYet => customers[mapping[a]] = a

\* "Guessing is how one reader's payment entitles another": whoever an event gives access
\* to has a subscription that was bought in that reader's own Session.
AccessIsOwn ==
    [][\A a \in entitled' \ entitled :
         \E k \in DOMAIN sessions : sessions[k].buyer = a /\ sessions[k].state = "subscribed"]_checkoutVars
=============================================================================
