------------------------------ MODULE Pricing ------------------------------
(***************************************************************************)
(* The prices of models: routers/spend.py, services/pricing_catalog.py and *)
(* the price look-up of services/spend_service.py.  Managers set prices by *)
(* hand; seeding, which any registration of a provider key or a backend    *)
(* starts, adds and refreshes those of the catalog and should leave the    *)
(* others alone.  A price stands for the three rates of a row.             *)
(***************************************************************************)
EXTENDS Sessions, SequencesExt

CONSTANTS
  Catalog,    \* PROVIDER_PRICING_CATALOG: provider -> (model -> rate); "*" is any model
  Defaults,   \* DEFAULT_PRICING and the legacy setting: model -> rate
  Entries,    \* <<model, provider>> of the prices managers set
  Rates,      \* rates that managers set
  OldRate,    \* the rate that an older catalog had
  Unknown     \* the rate of a cloud model nobody knows

ASSUME PricingAssumption == \A e \in Entries : e = <<e[1], e[2]>>

VARIABLES
  prices,     \* the rows: <<model, provider>> -> [rate, source, id]
  ids,        \* the sequence of ids, which may leave some out: no row has a later one
  said,       \* history: the rates managers have set for a row, and the last one
  outdated    \* history: the catalog has changed since the rows were seeded

priceVars == <<prices, ids, said, outdated>>

\* provider.lower().strip(), "google" meaning "gemini".
Canonical(p) == IF p = "google" THEN "gemini" ELSE p

Row(rate, source, id) == [rate |-> rate, source |-> source, id |-> id]
Of(p) == {e \in DOMAIN prices : e[2] = p}
Seen(p) == [e \in Of(p) |-> prices[e]]

\* The row of e, if there is one.
RowOf(e) == {prices[x] : x \in DOMAIN prices \cap {e}}
Ids(found) == {row.id : row \in found}

-----------------------------------------------------------------------------
(* auto_seed_pricing_for_provider, for the providers of todo in turn.      *)

\* One provider, or all of them in the order of the catalog.
Orders == {<<p>> : p \in DOMAIN Catalog} \cup {SetToSeq(DOMAIN Catalog)}

AskSeed(s, todo) ==
  /\ Accept(s, [op |-> "seed", at |-> "reading", todo |-> todo])
  /\ UNCHANGED priceVars

ReadCatalogRows(s) ==
  /\ hand[s].op = "seed" /\ hand[s].at = "reading"
  /\ IF hand[s].todo = <<>> THEN Finish(s)
     ELSE Proceed(s, [op |-> "seed", at |-> "read", todo |-> hand[s].todo,
                      seen |-> Seen(Canonical(Head(hand[s].todo)))])
  /\ UNCHANGED priceVars

\* Bug: prices set by hand are refreshed too.
RefreshedAll(seen, p) == {e \in DOMAIN seen : e[1] \in DOMAIN Catalog[p]}

Refreshed(seen, p) == {e \in DOMAIN seen : e[1] \in DOMAIN Catalog[p] /\ seen[e].source = "catalog"}

Missing(seen, p) == {<<m, p>> : m \in DOMAIN Catalog[p]} \ DOMAIN seen

\* One transaction: it fails as a whole if a row to add exists by now, or one
\* to change is gone, even if another has taken its place.
CommitSeed(s) ==
  /\ hand[s].op = "seed" /\ hand[s].at = "read"
  /\ LET seen == hand[s].seen
         p == Canonical(Head(hand[s].todo))
         rate(e) == Catalog[p][e[1]]
         changed == {e \in Refreshed(seen, p) : seen[e].rate # rate(e)}
         added == Missing(seen, p)
         fails == added \cap DOMAIN prices # {} \/ \E e \in changed : Ids(RowOf(e)) # {seen[e].id}
     IN  /\ prices' = IF p \notin DOMAIN Catalog \/ fails THEN prices
                      ELSE [e \in DOMAIN prices \cup added |->
                              IF e \in added THEN Row(rate(e), "catalog", ids + 1)
                              ELSE IF e \in changed THEN [prices[e] EXCEPT !.rate = rate(e)] ELSE prices[e]]
         /\ ids' = ids + 1
         /\ IF fails THEN Finish(s)
            ELSE Proceed(s, [op |-> "seed", at |-> "reading", todo |-> Tail(hand[s].todo)])
  /\ UNCHANGED <<said, outdated>>

-----------------------------------------------------------------------------
(* Prices set by hand: POST and PUT end in upsert_model_pricing.           *)

AskPrice(s, e, rate, mustExist) ==
  /\ Accept(s, [op |-> "price", at |-> "reading", row |-> e, rate |-> rate, strict |-> mustExist])
  /\ UNCHANGED priceVars

\* update_pricing refuses a row that does not exist.
ReadPrice(s) ==
  /\ hand[s].op = "price" /\ hand[s].at = "reading"
  /\ LET e == hand[s].row
     IN  IF hand[s].strict /\ e \notin DOMAIN prices THEN Finish(s)
         ELSE Proceed(s, [op |-> "price", at |-> "read", row |-> e, rate |-> hand[s].rate,
                          was |-> RowOf(e)])
  /\ UNCHANGED priceVars

Overridden(now, was, rate) ==
  [now EXCEPT !.rate = Column(@, was.rate, rate), !.source = Column(@, was.source, "manual")]

CommitPrice(s) ==
  /\ hand[s].op = "price" /\ hand[s].at = "read"
  /\ LET e == hand[s].row
         was == hand[s].was
         rate == hand[s].rate
         ok == Ids(was) = Ids(RowOf(e))
     IN  /\ prices' = IF ~ok THEN prices
                      ELSE [x \in DOMAIN prices \cup {e} |->
                              IF x # e THEN prices[x]
                              ELSE IF was = {} THEN Row(rate, "manual", ids + 1)
                              ELSE Overridden(prices[e], CHOOSE w \in was : TRUE, rate)]
         /\ ids' = ids + 1
         /\ said' = IF ok THEN [said EXCEPT ![e] = [last |-> rate, all |-> @.all \cup {rate}]] ELSE said
  /\ Finish(s)
  /\ UNCHANGED outdated

AskDelete(s, e) ==
  /\ e \in DOMAIN prices
  /\ Accept(s, [op |-> "unprice", at |-> "read", row |-> e, was |-> RowOf(e)])
  /\ UNCHANGED priceVars

CommitDelete(s) ==
  /\ hand[s].op = "unprice"
  /\ prices' = [e \in {x \in DOMAIN prices : x # hand[s].row \/ Ids(RowOf(x)) # Ids(hand[s].was)} |-> prices[e]]
  /\ Finish(s)
  /\ UNCHANGED <<ids, said, outdated>>

-----------------------------------------------------------------------------
(* What a request is charged: _load_pricing and _get_model_cost.           *)

Local == {"ollama", "vllm", "llamacpp"}

\* The price of a model's name: the default's, or the first row's.
Named(m) == {e \in DOMAIN prices : e[1] = m}
FirstNamed(m) == prices[CHOOSE e \in Named(m) : \A f \in Named(m) : prices[e].id <= prices[f].id].rate

\* lookup_catalog_rate
InCatalog(m) == {q \in DOMAIN Catalog : m \in DOMAIN Catalog[q]}
CatalogRate(m, p) ==
  CASE p \in InCatalog(m) -> Catalog[p][m]
    [] p \in InCatalog("*") /\ p \notin InCatalog(m) -> Catalog[p]["*"]
    [] p \notin InCatalog(m) \cup InCatalog("*") /\ InCatalog(m) # {} -> Catalog[CHOOSE q \in InCatalog(m) : TRUE][m]
    [] OTHER -> Unknown

Cost(m, provider) ==
  LET p == Canonical(provider)
  IN  IF <<m, p>> \in DOMAIN prices THEN prices[<<m, p>>].rate
      ELSE IF <<m, "*">> \in DOMAIN prices THEN prices[<<m, "*">>].rate
      ELSE IF m \in DOMAIN Defaults THEN Defaults[m]
      ELSE IF Named(m) # {} THEN FirstNamed(m)
      ELSE IF p \in Local THEN 0
      ELSE CatalogRate(m, p)

-----------------------------------------------------------------------------
\* The table is empty, seeded by this catalog, or by an older one.
Seeded(p, old) == [e \in {<<m, p>> : m \in DOMAIN Catalog[p]} |-> Row(IF old THEN OldRate ELSE Catalog[p][e[1]], "catalog", 1)]

PricingInit ==
  /\ outdated \in BOOLEAN
  /\ \/ prices = <<>>
     \/ \E p \in DOMAIN Catalog : prices = Seeded(p, outdated)
  /\ ids = 1
  /\ said = [e \in Entries |-> [last |-> -1, all |-> {}]]

PricingNext ==
  \/ \E s \in Session :
       \/ \E todo \in Orders : AskSeed(s, todo)
       \/ \E e \in Entries, r \in Rates, strict \in BOOLEAN : AskPrice(s, e, r, strict)
       \/ \E e \in Entries : AskDelete(s, e)
       \/ ReadCatalogRows(s) \/ CommitSeed(s) \/ ReadPrice(s) \/ CommitPrice(s) \/ CommitDelete(s)

PricingSpec == SessionsInit(0) /\ PricingInit /\ [][PricingNext]_<<sessionVars, priceVars>>

-----------------------------------------------------------------------------
(* A price set by hand is what its model costs with its provider: the last *)
(* one that was set if requests do not overlap; if they do, one that some  *)
(* manager has set, or the catalog's when it has changed since the row was *)
(* seeded (pricing_catalog.py:296-347 reads, then writes).  Prices set for *)
(* "google" are looked up under "gemini" and are not told of here.         *)
ManualPrice ==
  \A e \in DOMAIN prices :
    prices[e].source = "manual" =>
      /\ \/ prices[e].rate = said[e].last
         \/ overlapped /\ prices[e].rate \in said[e].all
         \/ overlapped /\ outdated /\ prices[e].rate = CatalogRate(e[1], e[2])
      /\ e[2] # "google" => Cost(e[1], e[2]) = prices[e].rate
=============================================================================
