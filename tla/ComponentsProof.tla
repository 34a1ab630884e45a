--------------------------- MODULE ComponentsProof ---------------------------
(***************************************************************************)
(* First the checkouts: whatever the number of readers and of checkouts    *)
(* that race or die, a Session is on its buyer's one Customer, and access  *)
(* comes only from a subscription bought by the reader who gets it.  Then  *)
(* all the components of MCComponents: what it explores of each is a       *)
(* behaviour of that component.                                            *)
(***************************************************************************)
EXTENDS MCComponents, SourceSeriesProof, PublishedIndexProof, IngestProof, ReportsProof

-----------------------------------------------------------------------------
(* Checkout. *)

\* What a request holds between two of its statements: the Customer to claim was created
\* for its reader, and the Customer of a Session is the one in the reader's row.
HoldsItsCustomer(p) ==
    LET a == checkout[p].buyer
        n == checkout[p].customer
    IN /\ checkout[p].pc = "claim" => n # NoCustomerYet /\ customers[n] = a
       /\ checkout[p].pc = "readback" => mapping[a] # NoCustomerYet
       /\ checkout[p].pc = "session" => n # NoCustomerYet /\ mapping[a] = n

CheckoutInv == /\ CheckoutTypeOK
               /\ SessionsOnMappedCustomer
               /\ \A p \in Checkouts : HoldsItsCustomer(p)

\* The state before any checkout satisfies the invariant.
LEMMA CheckoutInitial == CheckoutInit => CheckoutInv
BY CheckoutAssumption
   DEF CheckoutInit, CheckoutInv, CheckoutTypeOK, SessionsOnMappedCustomer, HoldsItsCustomer,
       CheckoutIdle, NoCustomerYet, Session, Customer

\* A Customer created at Stripe changes no index of those created before it.
LEMMA CreatedIsNew ==
    ASSUME CheckoutTypeOK, NEW a \in Buyers, Len(customers) < MaxCustomers,
           customers' = Append(customers, a)
    PROVE  /\ customers' \in Seq(Buyers) /\ Len(customers') = Len(customers) + 1
           /\ Len(customers') <= MaxCustomers
           /\ customers'[Len(customers')] = a
           /\ \A n \in 1..Len(customers) : customers'[n] = customers[n]
BY CheckoutAssumption DEF CheckoutTypeOK

\* resolveCheckoutHandoff lets a reader in who holds nothing yet.
LEMMA HandoffKeeps ==
    ASSUME CheckoutInv, NEW p \in Checkouts, ResolveHandoff(p) PROVE CheckoutInv'
<1>1. PICK a \in Buyers : checkout' = [checkout EXCEPT ![p] =
                                         [pc |-> "read", buyer |-> a, customer |-> NoCustomerYet]]
  BY DEF ResolveHandoff, CheckoutIdle
<1>2. UNCHANGED <<customers, mapping, sessions, entitled>>
  BY DEF ResolveHandoff
<1>3. CheckoutTypeOK'
  BY <1>1, <1>2 DEF CheckoutInv, CheckoutTypeOK, NoCustomerYet
<1>4. ASSUME NEW q \in Checkouts PROVE HoldsItsCustomer(q)'
  BY <1>1, <1>2 DEF CheckoutInv, CheckoutTypeOK, HoldsItsCustomer
<1> QED BY <1>2, <1>3, <1>4 DEF CheckoutInv, SessionsOnMappedCustomer

\* resolveStripeCustomerId goes on with the Customer in the row, or to create one.
LEMMA ReadKeeps ==
    ASSUME CheckoutInv, NEW p \in Checkouts, ReadCustomerId(p) PROVE CheckoutInv'
BY DEF CheckoutInv, CheckoutTypeOK, SessionsOnMappedCustomer, HoldsItsCustomer, ReadCustomerId,
       Continues, Buyer, NoCustomerYet

\* A new Customer is its creator's alone, and no other request's Customer moves.
LEMMA CreateKeeps ==
    ASSUME CheckoutInv, NEW p \in Checkouts, CreateCustomer(p) PROVE CheckoutInv'
<1>1. Buyer(p) \in Buyers
  BY DEF CheckoutInv, CheckoutTypeOK, Buyer
<1>2. /\ customers' \in Seq(Buyers) /\ Len(customers') = Len(customers) + 1
      /\ Len(customers') <= MaxCustomers
      /\ customers'[Len(customers')] = Buyer(p)
      /\ \A n \in 1..Len(customers) : customers'[n] = customers[n]
  BY <1>1, CreatedIsNew DEF CheckoutInv, CreateCustomer
<1>3. Len(customers) \in Nat
  BY DEF CheckoutInv, CheckoutTypeOK
<1>4. CheckoutTypeOK'
  BY <1>2, <1>3 DEF CheckoutInv, CheckoutTypeOK, CreateCustomer, Continues, NoCustomerYet
<1>5. SessionsOnMappedCustomer'
  BY <1>2, <1>3 DEF CheckoutInv, CheckoutTypeOK, SessionsOnMappedCustomer, CreateCustomer, NoCustomerYet
<1>6. ASSUME NEW q \in Checkouts PROVE HoldsItsCustomer(q)'
  BY <1>2, <1>3
     DEF CheckoutInv, CheckoutTypeOK, HoldsItsCustomer, CreateCustomer, Continues, Buyer, NoCustomerYet
<1> QED BY <1>4, <1>5, <1>6 DEF CheckoutInv

\* The insert writes a row only where there was none, so no row a Session or another
\* request rests on is replaced.
LEMMA ClaimKeeps ==
    ASSUME CheckoutInv, NEW p \in Checkouts, ClaimCustomerId(p) PROVE CheckoutInv'
<1> DEFINE own == checkout[p].buyer
           new == checkout[p].customer
<1>1. /\ checkout[p].pc = "claim" /\ own \in Buyers
      /\ new \in 1..Len(customers) /\ customers[new] = own
      /\ UNCHANGED <<customers, sessions, entitled>>
  BY DEF CheckoutInv, CheckoutTypeOK, HoldsItsCustomer, ClaimCustomerId, Buyer, NoCustomerYet
<1>2. \/ /\ mapping[own] = NoCustomerYet
         /\ mapping' = [mapping EXCEPT ![own] = new]
         /\ checkout' = [checkout EXCEPT ![p] = [pc |-> "session", buyer |-> own, customer |-> new]]
      \/ /\ mapping[own] # NoCustomerYet /\ mapping' = mapping
         /\ checkout' = [checkout EXCEPT ![p] = [pc |-> "readback", buyer |-> own,
                                                 customer |-> NoCustomerYet]]
  BY DEF CheckoutInv, CheckoutTypeOK, ClaimCustomerId, Continues, Buyer
<1>3. /\ Len(customers) \in Nat /\ mapping \in [Buyers -> NoCustomerYet..Len(customers)]
      /\ checkout \in [Checkouts ->
           [pc : {"idle", "read", "create", "claim", "readback", "session"},
            buyer : Buyers, customer : NoCustomerYet..Len(customers)]]
  BY DEF CheckoutInv, CheckoutTypeOK
<1> HIDE DEF own, new
<1>4. CheckoutTypeOK'
  <2>1. new \in NoCustomerYet..Len(customers) /\ NoCustomerYet \in NoCustomerYet..Len(customers)
    BY <1>1, <1>3 DEF NoCustomerYet
  <2>2. mapping' = mapping \/ mapping' = [mapping EXCEPT ![own] = new]
    BY <1>2
  <2>3. mapping' \in [Buyers -> NoCustomerYet..Len(customers)]
    BY <1>3, <2>1, <2>2
  <2>4. PICK pc \in {"readback", "session"}, n \in NoCustomerYet..Len(customers) :
           checkout' = [checkout EXCEPT ![p] = [pc |-> pc, buyer |-> own, customer |-> n]]
    BY <1>2, <2>1
  <2>5. checkout' \in [Checkouts ->
           [pc : {"idle", "read", "create", "claim", "readback", "session"},
            buyer : Buyers, customer : NoCustomerYet..Len(customers)]]
    BY <1>1, <1>3, <2>4
  <2> QED BY <1>1, <2>3, <2>5 DEF CheckoutInv, CheckoutTypeOK
<1>5. \A b \in Buyers : mapping[b] # NoCustomerYet => mapping'[b] = mapping[b]
  BY <1>2, <1>3
<1>6. SessionsOnMappedCustomer'
  <2>1. \A k \in DOMAIN sessions : /\ sessions[k].buyer \in Buyers
                                   /\ mapping[sessions[k].buyer] = sessions[k].customer
                                   /\ sessions[k].customer # NoCustomerYet
    <3>1. \A k \in DOMAIN sessions : sessions[k] \in Session
      BY DEF CheckoutInv, CheckoutTypeOK
    <3> QED BY <3>1 DEF CheckoutInv, SessionsOnMappedCustomer, Session, Customer, NoCustomerYet
  <2>2. \A b \in Buyers : mapping'[b] # NoCustomerYet => customers[mapping'[b]] = b
    BY <1>1, <1>2, <1>3 DEF CheckoutInv, SessionsOnMappedCustomer
  <2> QED BY <1>1, <1>5, <2>1, <2>2 DEF SessionsOnMappedCustomer
<1>7. ASSUME NEW q \in Checkouts PROVE HoldsItsCustomer(q)'
  <2>1. CASE q = p
    BY <1>1, <1>2, <1>3, <2>1 DEF HoldsItsCustomer, NoCustomerYet
  <2>2. CASE q # p
    <3>1. checkout'[q] = checkout[q] /\ checkout[q].buyer \in Buyers
      BY <1>2, <1>3, <2>2
    <3> QED BY <1>1, <1>5, <3>1 DEF CheckoutInv, HoldsItsCustomer, NoCustomerYet
  <2> QED BY <2>1, <2>2
<1> QED BY <1>4, <1>6, <1>7 DEF CheckoutInv

\* The loser reads the winner's Customer.
LEMMA ReadBackKeeps ==
    ASSUME CheckoutInv, NEW p \in Checkouts, ReadBack(p) PROVE CheckoutInv'
BY DEF CheckoutInv, CheckoutTypeOK, SessionsOnMappedCustomer, HoldsItsCustomer, ReadBack,
       Continues, Buyer, NoCustomerYet

\* A Session is created on the Customer its reader's row names.
LEMMA SessionKeeps ==
    ASSUME CheckoutInv, NEW p \in Checkouts, CreateSession(p) PROVE CheckoutInv'
<1> DEFINE s == [buyer |-> Buyer(p), customer |-> checkout[p].customer, state |-> "open"]
<1>1. s \in Session /\ mapping[s.buyer] = s.customer
  BY CheckoutAssumption
     DEF CheckoutInv, CheckoutTypeOK, HoldsItsCustomer, CreateSession, Buyer, Session, Customer, NoCustomerYet
<1>2. /\ sessions' = Append(sessions, s) /\ Len(sessions) < MaxSessions
      /\ sessions \in Seq(Session) /\ UNCHANGED <<customers, mapping, entitled>>
      /\ checkout' = [checkout EXCEPT ![p] = CheckoutIdle]
  BY DEF CheckoutInv, CheckoutTypeOK, CreateSession
<1> HIDE DEF s
<1>3. CheckoutIdle \in [pc : {"idle"}, buyer : Buyers, customer : {NoCustomerYet}]
  BY CheckoutAssumption DEF CheckoutIdle
<1>4. /\ sessions' \in Seq(Session) /\ Len(sessions') = Len(sessions) + 1
      /\ \A k \in DOMAIN sessions' : sessions'[k] = IF k \in DOMAIN sessions THEN sessions[k] ELSE s
  BY <1>1, <1>2
<1>5. CheckoutTypeOK'
  BY <1>2, <1>3, <1>4, CheckoutAssumption DEF CheckoutInv, CheckoutTypeOK, NoCustomerYet
<1>6. SessionsOnMappedCustomer'
  BY <1>1, <1>2, <1>4 DEF CheckoutInv, SessionsOnMappedCustomer
<1>7. ASSUME NEW q \in Checkouts PROVE HoldsItsCustomer(q)'
  BY <1>2, <1>3 DEF CheckoutInv, CheckoutTypeOK, HoldsItsCustomer
<1> QED BY <1>5, <1>6, <1>7 DEF CheckoutInv

\* A request that ends anywhere leaves at most a Customer no row names.
LEMMA EndKeeps ==
    ASSUME CheckoutInv, NEW p \in Checkouts, CheckoutEnds(p) PROVE CheckoutInv'
<1>1. Buyer(p) \in Buyers /\ Len(customers) \in Nat
  BY DEF CheckoutInv, CheckoutTypeOK, Buyer
<1>2. CheckoutIdle \in [pc : {"idle"}, buyer : Buyers, customer : {NoCustomerYet}]
  BY CheckoutAssumption DEF CheckoutIdle
<1>3. /\ customers' \in Seq(Buyers) /\ Len(customers') >= Len(customers)
      /\ Len(customers') \in Nat /\ Len(customers') <= MaxCustomers
      /\ \A n \in 1..Len(customers) : customers'[n] = customers[n]
  <2>1. CASE UNCHANGED customers
    BY <1>1, <2>1 DEF CheckoutInv, CheckoutTypeOK
  <2>2. CASE Len(customers) < MaxCustomers /\ customers' = Append(customers, Buyer(p))
    BY <1>1, <2>2, CreatedIsNew DEF CheckoutInv
  <2> QED BY <2>1, <2>2 DEF CheckoutEnds
<1>4. CheckoutTypeOK'
  BY <1>1, <1>2, <1>3 DEF CheckoutInv, CheckoutTypeOK, CheckoutEnds, NoCustomerYet
<1>5. SessionsOnMappedCustomer'
  BY <1>1, <1>3 DEF CheckoutInv, CheckoutTypeOK, SessionsOnMappedCustomer, CheckoutEnds, NoCustomerYet
<1>6. ASSUME NEW q \in Checkouts PROVE HoldsItsCustomer(q)'
  <2>1. checkout'[q] = checkout[q] \/ checkout'[q].pc = "idle"
    BY <1>2 DEF CheckoutInv, CheckoutTypeOK, CheckoutEnds
  <2>2. checkout[q].customer # NoCustomerYet =>
          customers'[checkout[q].customer] = customers[checkout[q].customer]
    BY <1>3 DEF CheckoutInv, CheckoutTypeOK, NoCustomerYet
  <2> QED BY <2>1, <2>2 DEF CheckoutInv, HoldsItsCustomer, CheckoutEnds
<1> QED BY <1>4, <1>5, <1>6 DEF CheckoutInv

\* Stripe moves a Session without moving it to another reader or Customer.
LEMMA SessionMovesKeeps ==
    ASSUME CheckoutInv, NEW k \in DOMAIN sessions, SessionMoves(k) PROVE CheckoutInv'
<1>1. \A j \in DOMAIN sessions : sessions[j] \in Session
  BY DEF CheckoutInv, CheckoutTypeOK
<1>2. PICK st \in {"subscribed", "over"} : sessions' = [sessions EXCEPT ![k].state = st]
  BY DEF SessionMoves
<1> DEFINE moved == [sessions[k] EXCEPT !.state = st]
<1>3. /\ moved \in Session
      /\ moved.buyer = sessions[k].buyer /\ moved.customer = sessions[k].customer
  BY <1>1 DEF Session
<1>4. sessions' = [sessions EXCEPT ![k] = moved] /\ sessions \in Seq(Session) /\ k \in 1..Len(sessions)
  BY <1>2 DEF CheckoutInv, CheckoutTypeOK
<1> HIDE DEF moved
<1>5. /\ sessions' \in Seq(Session) /\ Len(sessions') = Len(sessions)
      /\ DOMAIN sessions' = DOMAIN sessions
      /\ \A j \in DOMAIN sessions : /\ sessions'[j].buyer = sessions[j].buyer
                                    /\ sessions'[j].customer = sessions[j].customer
  BY <1>3, <1>4, ExceptSeq
<1>6. CheckoutTypeOK'
  BY <1>5 DEF CheckoutInv, CheckoutTypeOK, SessionMoves
<1>7. SessionsOnMappedCustomer'
  BY <1>5 DEF CheckoutInv, SessionsOnMappedCustomer, SessionMoves
<1> QED BY <1>6, <1>7 DEF CheckoutInv, HoldsItsCustomer, SessionMoves

\* Under the invariant, the metadata and the Customer's row name the same reader.
LEMMA OneAccount ==
    ASSUME CheckoutInv, NEW k \in DOMAIN sessions, NEW a \in AccountOf(k)
    PROVE  a = sessions[k].buyer /\ a \in Buyers
<1>1. sessions[k] \in Session
  BY DEF CheckoutInv, CheckoutTypeOK
<1> QED BY <1>1 DEF CheckoutInv, SessionsOnMappedCustomer, AccountOf, Session, Customer, NoCustomerYet

\* An event moves only access.
LEMMA EventKeeps ==
    ASSUME CheckoutInv, NEW k \in DOMAIN sessions, EventArrives(k) PROVE CheckoutInv'
<1>1. PICK a \in AccountOf(k) :
        entitled' = IF sessions[k].state = "subscribed" THEN entitled \cup {a} ELSE entitled \ {a}
  BY DEF EventArrives
<1>2. entitled' \subseteq Buyers
  BY <1>1, OneAccount DEF CheckoutInv, CheckoutTypeOK
<1> QED BY <1>2 DEF CheckoutInv, CheckoutTypeOK, SessionsOnMappedCustomer, HoldsItsCustomer, EventArrives

\* Every step of every request, of Stripe and of its events keeps the invariant.
LEMMA CheckoutInductive == CheckoutInv /\ [CheckoutNext]_checkoutVars => CheckoutInv'
<1> SUFFICES ASSUME CheckoutInv, [CheckoutNext]_checkoutVars PROVE CheckoutInv'
  OBVIOUS
<1>1. CASE UNCHANGED checkoutVars
  BY <1>1 DEF checkoutVars, CheckoutInv, CheckoutTypeOK, SessionsOnMappedCustomer, HoldsItsCustomer
<1>2. ASSUME NEW p \in Checkouts,
             ResolveHandoff(p) \/ ReadCustomerId(p) \/ CreateCustomer(p) \/ ClaimCustomerId(p)
             \/ ReadBack(p) \/ CreateSession(p) \/ CheckoutEnds(p)
      PROVE CheckoutInv'
  BY <1>2, HandoffKeeps, ReadKeeps, CreateKeeps, ClaimKeeps, ReadBackKeeps, SessionKeeps, EndKeeps
<1>3. ASSUME NEW k \in DOMAIN sessions, SessionMoves(k) \/ EventArrives(k) PROVE CheckoutInv'
  BY <1>3, SessionMovesKeeps, EventKeeps
<1> QED BY <1>1, <1>2, <1>3 DEF CheckoutNext

\* The invariant of any number of readers and requests.
LEMMA CheckoutAlways == CheckoutSpec => []CheckoutInv
BY CheckoutInitial, CheckoutInductive, PTL DEF CheckoutSpec

\* The mapping names only Customers that exist, and a Session is never without one.
THEOREM CheckoutTypeCorrect == CheckoutSpec => []CheckoutTypeOK
BY CheckoutAlways, PTL DEF CheckoutInv

\* claimCustomerId: "both callers end up using the winner", for every number of readers
\* and of racing or dying first checkouts.
THEOREM OneCustomer == CheckoutSpec => []SessionsOnMappedCustomer
BY CheckoutAlways, PTL DEF CheckoutInv

\* resolveAccountId and writeEntitlementFor: access is given only to the reader in whose
\* own Session the subscription was bought.
THEOREM OnlyOwnAccess == CheckoutSpec => AccessIsOwn
<1> DEFINE Own == \A a \in entitled' \ entitled :
                    \E k \in DOMAIN sessions : sessions[k].buyer = a /\ sessions[k].state = "subscribed"
<1>1. CheckoutInv /\ [CheckoutNext]_checkoutVars => [Own]_checkoutVars
  <2> SUFFICES ASSUME CheckoutInv, [CheckoutNext]_checkoutVars, NEW a \in entitled' \ entitled
               PROVE \E k \in DOMAIN sessions : sessions[k].buyer = a /\ sessions[k].state = "subscribed"
    OBVIOUS
  <2>1. PICK k \in DOMAIN sessions : EventArrives(k)
    BY DEF checkoutVars, CheckoutNext, ResolveHandoff, ReadCustomerId, CreateCustomer, ClaimCustomerId,
           ReadBack, CreateSession, CheckoutEnds, SessionMoves
  <2>2. a \in AccountOf(k) /\ sessions[k].state = "subscribed"
    BY <2>1 DEF EventArrives
  <2> QED BY <2>2, OneAccount
<1>2. CheckoutSpec => [][Own]_checkoutVars
  BY <1>1, CheckoutAlways, PTL DEF CheckoutSpec
<1> QED BY <1>2 DEF AccessIsOwn

-----------------------------------------------------------------------------
(* All of them.  MCNext only restricts: each of its steps is a step of one *)
(* component, and leaves the others where they are.                        *)

LEMMA SeriesSteps ==
    ASSUME MCNext
    PROVE  /\ [UtviNext]_utviVars
           /\ [UmpiNext]_umpiVars
           /\ [UepiNext]_uepiVars
           /\ [QueueNext]_queueVars
           /\ [UcpiNext]_ucpiVars
           /\ [CheckoutNext]_checkoutVars
<1>0. UepiMoves => UepiNext
  BY Zenon DEF UepiMoves
<1>1. CASE SeriesNext /\ UNCHANGED <<reports, models>>
  BY <1>0, <1>1 DEF SeriesNext, UtviMoves, UmpiMoves, QueueMoves, UcpiMoves
<1>2. CASE UNCHANGED series
  BY <1>2 DEF series
<1> QED
  BY <1>1, <1>2 DEF MCNext

LEMMA ReportsSteps ==
    ASSUME MCNext
    PROVE  /\ [NumeratorNext]_numeratorVars
           /\ [UbwiNext]_ubwiVars
           /\ [PublisherNext]_publisherVars
           /\ [FreshnessNext]_freshnessVars
<1>1. CASE ReportsNext /\ UNCHANGED <<series, models>>
  BY <1>1 DEF ReportsNext, UbwiMoves, PublisherMoves, FreshnessMoves
<1>2. CASE UNCHANGED reports
  BY <1>2 DEF reports
<1> QED
  BY <1>1, <1>2 DEF MCNext

LEMMA ModelsSteps ==
    ASSUME MCNext
    PROVE  /\ [FrontierNext]_frontierVars
           /\ [TokenNext]_tokenVars
<1>1. CASE ModelsNext /\ UNCHANGED <<series, reports>>
  BY <1>1 DEF ModelsNext, FrontierMoves, TokenMoves
<1>2. CASE UNCHANGED models
  BY <1>2 DEF models
<1> QED
  BY <1>1, <1>2 DEF MCNext

\* The behaviours explored are behaviours of every component: the scales only leave some
\* out, so that what is found of one is found of the code it models.
THEOREM EachIsItsComponent ==
    MCSpec => /\ UtviInit /\ [][UtviNext]_utviVars
              /\ UmpiInit /\ [][UmpiNext]_umpiVars
              /\ UepiInit /\ [][UepiNext]_uepiVars
              /\ QueueInit /\ [][QueueNext]_queueVars
              /\ UcpiInit /\ [][UcpiNext]_ucpiVars
              /\ CheckoutInit /\ [][CheckoutNext]_checkoutVars
              /\ NumeratorInit /\ [][NumeratorNext]_numeratorVars
              /\ UbwiInit /\ [][UbwiNext]_ubwiVars
              /\ PublisherInit /\ [][PublisherNext]_publisherVars
              /\ FreshnessInit /\ [][FreshnessNext]_freshnessVars
              /\ FrontierInit /\ [][FrontierNext]_frontierVars
              /\ TokenInit /\ [][TokenNext]_tokenVars
<1>1. MCInit => /\ UtviInit /\ UmpiInit /\ UepiInit /\ QueueInit /\ UcpiInit /\ CheckoutInit
                /\ NumeratorInit /\ UbwiInit /\ PublisherInit /\ FreshnessInit
                /\ FrontierInit /\ TokenInit
  BY DEF MCInit
<1>2. [MCNext]_components => /\ [UtviNext]_utviVars
                             /\ [UmpiNext]_umpiVars
                             /\ [UepiNext]_uepiVars
                             /\ [QueueNext]_queueVars
                             /\ [UcpiNext]_ucpiVars
                             /\ [CheckoutNext]_checkoutVars
                             /\ [NumeratorNext]_numeratorVars
                             /\ [UbwiNext]_ubwiVars
                             /\ [PublisherNext]_publisherVars
                             /\ [FreshnessNext]_freshnessVars
                             /\ [FrontierNext]_frontierVars
                             /\ [TokenNext]_tokenVars
  <2>1. CASE MCNext
    BY <2>1, SeriesSteps, ReportsSteps, ModelsSteps
  <2>2. CASE UNCHANGED components
    BY <2>2 DEF components, series, reports, models
  <2> QED
    BY <2>1, <2>2
<1> QED
  BY <1>1, <1>2, PTL DEF MCSpec

\* Every table, run and provider of the twelve components keeps its shape, whatever values
\* the constants have.
THEOREM ComponentsTypeCorrect == MCSpec => []TypesOK
<1>1. FrontierInit /\ [][FrontierNext]_frontierVars => []FrontierTypeOK
  <2>1. FrontierInv => FrontierTypeOK
    BY DEF FrontierInv
  <2> QED
    BY <2>1, FrontierInitially, FrontierKept, PTL
<1>2. UtviInit /\ [][UtviNext]_utviVars => []UtviTypeOK
  BY UtviTypeCorrect, PTL DEF UtviSpec
<1>3. UmpiInit /\ [][UmpiNext]_umpiVars => []UmpiTypeOK
  BY UmpiTypeCorrect, PTL DEF UmpiSpec
<1>4. UepiInit /\ [][UepiNext]_uepiVars => []UepiTypeOK
  BY UepiTypeCorrect, PTL DEF UepiSpec
<1>5. QueueInit /\ [][QueueNext]_queueVars => []QueueTypeOK
  BY QueueTypeCorrect, PTL DEF QueueSpec
<1>6. UcpiInit /\ [][UcpiNext]_ucpiVars => []UcpiTypeOK
  BY UcpiTypeCorrect, PTL DEF UcpiSpec
<1>7. CheckoutInit /\ [][CheckoutNext]_checkoutVars => []CheckoutTypeOK
  BY CheckoutTypeCorrect, PTL DEF CheckoutSpec
<1>8. NumeratorInit /\ [][NumeratorNext]_numeratorVars => []NumeratorTypeOK
  BY NumeratorTypeCorrect, PTL DEF NumeratorSpec
<1>9. UbwiInit /\ [][UbwiNext]_ubwiVars => []UbwiTypeOK
  BY UbwiTypeCorrect, PTL DEF UbwiSpec
<1>10. PublisherInit /\ [][PublisherNext]_publisherVars => []PublisherTypeOK
  BY PublisherTypeCorrect, PTL DEF PublisherSpec
<1>11. FreshnessInit /\ [][FreshnessNext]_freshnessVars => []FreshnessTypeOK
  BY FreshnessTypeCorrect, PTL DEF FreshnessSpec
<1>12. TokenInit /\ [][TokenNext]_tokenVars => []TokenTypeOK
  BY TokenTypeCorrect, PTL DEF TokenSpec
<1> QED
  BY <1>1, <1>2, <1>3, <1>4, <1>5, <1>6, <1>7, <1>8, <1>9, <1>10, <1>11, <1>12,
     EachIsItsComponent, PTL DEF TypesOK
=============================================================================
