------------------------- MODULE MarketData_proofs -------------------------
(***************************************************************************)
(* Theorems about MarketData: for any assets, prices and price types, and  *)
(* with every fault allowed.                                               *)
(*                                                                         *)
(* Types is the type invariant; Ready says what a ready flag stands for,   *)
(* wherever it is under way; Current that a price which Zorro does not     *)
(* know is on its way to Zorro.                                            *)
(***************************************************************************)
EXTENDS MarketData, TLAPS

(* A price that a flag of an asset stands for is there before the flag is. *)
HasAsk(a) == symbol[a].ask # NoPrice

Ready ==
    /\ \A a \in symbols : "Top" \in symbol[a].ready => HasAsk(a)
    /\ cb.pc = "mark" => (cb.flag = "Top" => HasAsk(cb.asset))
    /\ main.pc = "trade" => main.ask # NoPrice /\ symbol[main.asset].ready = Flags
    /\ \A a \in Assets : told[a] # NoPrice => a \in symbols /\ symbol[a].ready = Flags

(* The callback thread is about to post a message.                         *)
WillPost ==
    \/ cb.pc = "mark" /\ cb.flag = "Top" /\ PostsFor("quote")
    \/ cb.pc = "post" /\ PostsFor(cb.kind)

(* A message that BrokerAsset will answer with what it then finds.         *)
OnItsWay == posted \/ WillPost

(* What BrokerAsset is about to answer.                                    *)
AboutToTell == Price(main.ask, symbol[main.asset].trade)

(* Zorro is asking for the price of the asset, or will after a message.    *)
Asked(a) == a \in due \/ (main.pc # "idle" /\ main.asset = a)

Current ==
    /\ \A a \in symbols :
          told[a] # NoPrice /\ Announced(a) /\ told[a] # CurrentPrice(a)
              => OnItsWay \/ Asked(a)
    /\ main.pc = "trade" /\ Announced(main.asset) /\ AboutToTell # CurrentPrice(main.asset)
          => OnItsWay

Inv == TypeOK /\ Ready /\ Current
-----------------------------------------------------------------------------
(* What the type of main and of cb says in each place of a thread.         *)
LEMMA Places ==
    ASSUME TypeOK
    PROVE  /\ main.pc \in {"idle", "wait", "trade"} /\ (main.pc = "idle" <=> main = MainIdle)
           /\ main.pc # "idle" => main.asset \in symbols
           /\ main.pc = "trade" => main.ask \in MaybePrice
           /\ cb.pc \in {"idle", "mark", "post"} /\ (cb.pc = "idle" <=> cb = CallbackIdle)
           /\ cb.pc = "mark" => cb.asset \in symbols /\ cb.flag \in Flags
           /\ cb.pc = "post" => cb.kind \in {"quote", "trade"}
  BY DEF TypeOK, MainIdle, CallbackIdle

(* The types are inductive.                                                *)
LEMMA TypesStep ==
    ASSUME TypeOK, [Next]_vars
    PROVE  TypeOK'
<1> USE Places, PriceAssumption
<1>1. ASSUME NEW a \in Assets, Subscribe(a)
      PROVE  TypeOK'
  BY <1>1 DEF Subscribe, SubscribeFails, TypeOK, Symbol, NewSymbol, MaybePrice, MainIdle, CallbackIdle
<1>2. ASSUME NEW a \in Assets, BrokerAsset(a)
      PROVE  TypeOK'
  BY <1>2 DEF BrokerAsset, TypeOK
<1>3. ASSUME NEW a \in Assets, NEW ask \in MaybePrice, BestQuote(a, ask)
      PROVE  TypeOK'
  BY <1>3 DEF BestQuote, Posting, TypeOK, Symbol, MaybePrice, Flags
<1>4. ASSUME NEW a \in Assets, MarketMode(a)
      PROVE  TypeOK'
  BY <1>4 DEF MarketMode, TypeOK, Flags
<1>5. ASSUME NEW a \in Assets, NEW price \in Prices, TradePrint(a, price)
      PROVE  TypeOK'
  BY <1>5 DEF TradePrint, Posting, TypeOK, Symbol, MaybePrice
<1>6. ASSUME NEW type \in PriceTypes, SetPriceType(type)
      PROVE  TypeOK'
  BY <1>6 DEF SetPriceType, TypeOK, MaybePrice
<1>7. CASE LoadTop
  BY <1>7 DEF LoadTop, TypeOK, Symbol
<1>8. CASE Answer
  BY <1>8 DEF Answer, Price, TypeOK, Symbol
<1>9. CASE TakeMessage
  BY <1>9 DEF TakeMessage, TypeOK
<1>10. CASE GiveUp
  BY <1>10 DEF GiveUp, TypeOK
<1>11. CASE SetMDReady
  BY <1>11 DEF SetMDReady, Posting, TypeOK, Symbol, Flags
<1>12. CASE Post
  BY <1>12 DEF Post, TypeOK
<1>13. CASE UNCHANGED vars
  BY <1>13 DEF vars, TypeOK
<1> QED
  BY <1>1, <1>2, <1>3, <1>4, <1>5, <1>6, <1>7, <1>8, <1>9, <1>10, <1>11, <1>12, <1>13
     DEF Next, Feed, Proceed

(* No price is taken back: an ask that a flag stands for stays.            *)
LEMMA ReadyStep ==
    ASSUME TypeOK, Ready, [Next]_vars
    PROVE  Ready'
<1> USE Places, PriceAssumption
<1>1. ASSUME NEW a \in Assets, Subscribe(a)
      PROVE  Ready'
  <2>1. a \notin symbols /\ main = MainIdle /\ UNCHANGED <<told, cb>>
        /\ symbols \subseteq symbols' /\ symbols' \subseteq symbols \cup {a}
    BY <1>1 DEF Subscribe, SubscribeFails
  <2>2. \A b \in symbols : symbol'[b] = symbol[b]
    BY <1>1 DEF Subscribe, SubscribeFails, TypeOK
  <2>3. a \in symbols' => symbol'[a].ready = {}
    BY <1>1 DEF Subscribe, SubscribeFails, NewSymbol, TypeOK
  <2>4. main'.pc # "trade"
    BY <1>1 DEF Subscribe, SubscribeFails, MainIdle
  <2> QED
    BY <2>1, <2>2, <2>3, <2>4 DEF Ready, HasAsk
<1>2. ASSUME NEW a \in Assets, BrokerAsset(a)
      PROVE  Ready'
  BY <1>2 DEF BrokerAsset, TypeOK, Ready, HasAsk
<1>3. ASSUME NEW a \in Assets, NEW ask \in MaybePrice, BestQuote(a, ask)
      PROVE  Ready'
  <2>1. symbol' = [symbol EXCEPT ![a].ask = IF ask = NoPrice THEN @ ELSE ask]
    BY <1>3 DEF BestQuote
  <2>2. \A b \in symbols : symbol'[b].ready = symbol[b].ready /\ (HasAsk(b) => HasAsk(b)')
    BY <1>3, <2>1 DEF BestQuote, HasAsk, TypeOK, Symbol
  <2>3. cb'.pc = "mark" => cb'.asset = a /\ HasAsk(a)'
    BY <1>3, <2>1 DEF BestQuote, MarksReady, Posting, HasAsk, TypeOK, Symbol
  <2>4. UNCHANGED <<main, told, symbols>>
    BY <1>3 DEF BestQuote
  <2> QED
    BY <2>2, <2>3, <2>4 DEF Ready, HasAsk
<1>4. ASSUME NEW a \in Assets, MarketMode(a)
      PROVE  Ready'
  BY <1>4 DEF MarketMode, TypeOK, Ready, HasAsk
<1>5. ASSUME NEW a \in Assets, NEW price \in Prices, TradePrint(a, price)
      PROVE  Ready'
  <2>1. \A b \in symbols : symbol'[b].ready = symbol[b].ready /\ symbol'[b].ask = symbol[b].ask
    BY <1>5 DEF TradePrint, TypeOK, Symbol
  <2> QED
    BY <1>5, <2>1 DEF TradePrint, Posting, Ready, HasAsk
<1>6. ASSUME NEW type \in PriceTypes, SetPriceType(type)
      PROVE  Ready'
  BY <1>6 DEF SetPriceType, TypeOK, Ready, HasAsk
<1>7. CASE LoadTop
  BY <1>7 DEF LoadTop, TypeOK, Ready, HasAsk, Flags
<1>8. CASE Answer
  BY <1>8 DEF Answer, TypeOK, Ready, HasAsk, MainIdle
<1>9. CASE TakeMessage
  BY <1>9 DEF TakeMessage, Ready, HasAsk
<1>10. CASE GiveUp
  BY <1>10 DEF GiveUp, Ready, HasAsk, MainIdle
<1>11. CASE SetMDReady
  <2>1. \A b \in symbols : symbol'[b].ask = symbol[b].ask
    BY <1>11 DEF SetMDReady, TypeOK, Symbol
  <2>2. \A b \in symbols : symbol'[b].ready =
            IF b = cb.asset THEN symbol[b].ready \cup {cb.flag} ELSE symbol[b].ready
    BY <1>11 DEF SetMDReady, TypeOK, Symbol
  <2>3. \A b \in symbols : symbol[b].ready = Flags => symbol'[b].ready = Flags
    BY <1>11, <2>2 DEF SetMDReady
  <2> QED
    BY <1>11, <2>1, <2>2, <2>3 DEF SetMDReady, Posting, Ready, HasAsk, CallbackIdle
<1>12. CASE Post
  BY <1>12 DEF Post, Ready, HasAsk, CallbackIdle
<1>13. CASE UNCHANGED vars
  BY <1>13 DEF vars, Ready, HasAsk
<1> QED
  BY <1>1, <1>2, <1>3, <1>4, <1>5, <1>6, <1>7, <1>8, <1>9, <1>10, <1>11, <1>12, <1>13
     DEF Next, Feed, Proceed

(* A step that moves no price that Zorro should hear of, and no message.   *)
LEMMA CurrentStays ==
    ASSUME Current, UNCHANGED <<main, told, symbols, priceType, due>>, OnItsWay => OnItsWay',
           \A b \in symbols : Announced(b)' => Announced(b) /\ CurrentPrice(b)' = CurrentPrice(b),
           main.pc = "trade" /\ Announced(main.asset)' => AboutToTell' = AboutToTell,
           main.pc = "trade" => main.asset \in symbols
    PROVE  Current'
  BY DEF Current, Asked

(* A change of a price that Zorro should hear of is followed by a post.    *)
LEMMA CurrentStep ==
    ASSUME TypeOK, Ready, Current, [Next]_vars
    PROVE  Current'
<1> USE Places, PriceAssumption
<1> USE DEF OnItsWay, WillPost
<1>1. ASSUME NEW a \in Assets, Subscribe(a)
      PROVE  Current'
  <2>1. a \notin symbols /\ main = MainIdle /\ UNCHANGED <<due, told, priceType, posted, cb>>
        /\ symbols \subseteq symbols' /\ symbols' \subseteq symbols \cup {a}
    BY <1>1 DEF Subscribe, SubscribeFails
  <2>2. \A b \in symbols : symbol'[b] = symbol[b]
    BY <1>1 DEF Subscribe, SubscribeFails, TypeOK
  <2>3. told[a] = NoPrice
    BY <2>1 DEF Ready
  <2>4. \A b \in symbols : Announced(b)' = Announced(b) /\ CurrentPrice(b)' = CurrentPrice(b)
    BY <2>1, <2>2 DEF Announced, CurrentPrice, Price
  <2>5. OnItsWay' = OnItsWay
    BY <2>1 DEF PostsFor
  <2>6. main'.pc # "trade"
    BY <1>1 DEF Subscribe, SubscribeFails, MainIdle
  <2>7. main.pc = "idle"
    BY <2>1 DEF MainIdle
  <2> QED
    BY <2>1, <2>3, <2>4, <2>5, <2>6, <2>7 DEF Current, Asked
<1>2. ASSUME NEW a \in Assets, BrokerAsset(a)
      PROVE  Current'
  BY <1>2 DEF BrokerAsset, Current, Asked, Announced, CurrentPrice, Price, PostsFor, MainIdle
<1>3. ASSUME NEW a \in Assets, NEW ask \in MaybePrice, BestQuote(a, ask)
      PROVE  Current'
  <2>1. UNCHANGED <<main, due, told, symbols, priceType, posted>> /\ cb = CallbackIdle
    BY <1>3 DEF BestQuote
  <2>2. \A b \in symbols : symbol'[b].trade = symbol[b].trade
    BY <1>3 DEF BestQuote, TypeOK, Symbol
  <2>3. CASE priceType = Trades
    BY <2>1, <2>2, <2>3, CurrentStays DEF Announced, CurrentPrice, Price, AboutToTell, CallbackIdle
  <2>4. CASE priceType # Trades
    <3>1. WillPost'
      BY <1>3, <2>1, <2>4 DEF BestQuote, Posting, PostsFor
    <3> QED
      BY <3>1, <2>1 DEF Current, Asked
  <2> QED
    BY <2>3, <2>4
<1>4. ASSUME NEW a \in Assets, MarketMode(a)
      PROVE  Current'
  BY <1>4, CurrentStays
     DEF MarketMode, Announced, CurrentPrice, Price, AboutToTell, CallbackIdle, PostsFor
<1>5. ASSUME NEW a \in Assets, NEW price \in Prices, TradePrint(a, price)
      PROVE  Current'
  <2>1. UNCHANGED <<main, due, told, symbols, priceType, posted>> /\ cb = CallbackIdle
    BY <1>5 DEF TradePrint
  <2>2. \A b \in symbols : symbol'[b].ask = symbol[b].ask
    BY <1>5 DEF TradePrint, TypeOK, Symbol
  <2>3. CASE priceType # Trades
    BY <2>1, <2>2, <2>3, CurrentStays DEF Announced, CurrentPrice, Price, AboutToTell, CallbackIdle
  <2>4. CASE priceType = Trades
    <3>1. WillPost'
      BY <1>5, <2>1, <2>4 DEF TradePrint, Posting, PostsFor
    <3> QED
      BY <3>1, <2>1 DEF Current, Asked
  <2> QED
    BY <2>3, <2>4
<1>6. ASSUME NEW type \in PriceTypes, SetPriceType(type)
      PROVE  Current'
  <2>1. \A b \in symbols' : told'[b] = NoPrice
    BY <1>6 DEF SetPriceType, TypeOK
  <2> QED
    BY <1>6, <2>1 DEF SetPriceType, Current, MainIdle
<1>7. CASE LoadTop
  BY <1>7 DEF LoadTop, Current, Asked, Announced, CurrentPrice, AboutToTell, Price, PostsFor
<1>8. CASE Answer
  <2>1. main.pc = "trade" /\ main.asset \in symbols /\ main' = MainIdle
        /\ due' = due \ {main.asset} /\ UNCHANGED <<symbols, symbol, priceType, posted, cb>>
    BY <1>8 DEF Answer
  <2>2. told' = [told EXCEPT ![main.asset] = AboutToTell]
    BY <1>8 DEF Answer, AboutToTell
  <2>3. \A b \in symbols : told'[b] = IF b = main.asset THEN AboutToTell ELSE told[b]
    BY <2>2 DEF TypeOK
  <2>4. /\ OnItsWay' = OnItsWay
        /\ \A b \in symbols : Announced(b)' = Announced(b) /\ CurrentPrice(b)' = CurrentPrice(b)
    BY <2>1 DEF PostsFor, Announced, CurrentPrice, Price
  <2>5. \A b \in symbols : b # main.asset /\ Asked(b) => b \in due'
    BY <2>1 DEF Asked
  <2>6. main'.pc = "idle"
    BY <2>1 DEF MainIdle
  <2> QED
    BY <2>1, <2>3, <2>4, <2>5, <2>6 DEF Current, Asked
<1>9. CASE TakeMessage
  BY <1>9 DEF TakeMessage, Current, Asked, MainIdle
<1>10. CASE GiveUp
  <2>1. told[main.asset] = NoPrice
    BY <1>10 DEF GiveUp, Ready, TypeOK
  <2>2. /\ UNCHANGED <<told, symbols>> /\ main'.pc = "idle" /\ due' = due \ {main.asset}
        /\ OnItsWay' = OnItsWay
        /\ \A b \in symbols : Announced(b)' = Announced(b) /\ CurrentPrice(b)' = CurrentPrice(b)
    BY <1>10 DEF GiveUp, MainIdle, PostsFor, Announced, CurrentPrice, Price
  <2> QED
    BY <2>1, <2>2 DEF Current, Asked
<1>11. CASE SetMDReady
  <2>1. \A b \in symbols : symbol'[b].ask = symbol[b].ask /\ symbol'[b].trade = symbol[b].trade
    BY <1>11 DEF SetMDReady, TypeOK, Symbol
  <2>2. UNCHANGED <<main, due, told, symbols, priceType, posted>>
    BY <1>11 DEF SetMDReady
  <2>3. OnItsWay => OnItsWay'
    BY <1>11 DEF SetMDReady, Posting, PostsFor
  <2> QED
    BY <2>1, <2>2, <2>3, CurrentStays DEF Announced, CurrentPrice, Price, AboutToTell
<1>12. CASE Post
  <2>1. UNCHANGED <<main, due, told, symbols, symbol, priceType>>
    BY <1>12 DEF Post
  <2>2. OnItsWay => OnItsWay'
    BY <1>12 DEF Post
  <2> QED
    BY <2>1, <2>2, CurrentStays DEF Announced, CurrentPrice, Price, AboutToTell
<1>13. CASE UNCHANGED vars
  BY <1>13, CurrentStays DEF vars, Announced, CurrentPrice, Price, AboutToTell, PostsFor
<1> QED
  BY <1>1, <1>2, <1>3, <1>4, <1>5, <1>6, <1>7, <1>8, <1>9, <1>10, <1>11, <1>12, <1>13
     DEF Next, Feed, Proceed

-----------------------------------------------------------------------------

LEMMA Initially ==
    ASSUME Init
    PROVE  Inv
<1>1. NewSymbol \in Symbol
  BY DEF NewSymbol, Symbol, MaybePrice
<1>2. TypeOK
  BY <1>1, PriceAssumption DEF Init, TypeOK, MaybePrice
<1>3. Ready /\ Current
  BY DEF Init, Ready, Current, MainIdle, CallbackIdle
<1> QED
  BY <1>2, <1>3 DEF Inv

LEMMA Invariance == Spec => []Inv
<1>1. Inv /\ [Next]_vars => Inv'
  BY TypesStep, ReadyStep, CurrentStep DEF Inv
<1> QED
  BY Initially, <1>1, PTL DEF Spec

(* The state of the quotes stays in its types, with every fault.           *)
THEOREM TypeCorrect == Spec => []TypeOK
<1>1. Inv => TypeOK
  BY DEF Inv
<1> QED
  BY Invariance, <1>1, PTL

(* Whenever no message, callback or call is under way, Zorro knows the     *)
(* current price of every asset it has a price of: no interleaving of      *)
(* quotes, trades, SET_PRICETYPE and BrokerAsset loses a price.            *)
THEOREM PricesAreNotMissed == Spec => []NoPriceMissed
<1>1. Inv => NoPriceMissed
  BY DEF Inv, Current, NoPriceMissed, OnItsWay, WillPost, Asked, CallbackIdle, MainIdle
<1> QED
  BY Invariance, <1>1, PTL

(* BrokerAsset never answers without a price: each flag it waits for is    *)
(* set after the ask that it stands for.                                   *)
THEOREM AnswersHaveAPrice == Spec => AnswersPrice
<1>1. Inv /\ Answer => told'[main.asset] # NoPrice
  <2> SUFFICES ASSUME Inv, Answer
               PROVE  told'[main.asset] # NoPrice
    OBVIOUS
  <2>1. main.asset \in Assets /\ main.ask # NoPrice
    BY Places DEF Inv, Answer, Ready, TypeOK
  <2>2. told'[main.asset] = Price(main.ask, symbol[main.asset].trade)
    BY <2>1 DEF Answer, Inv, TypeOK
  <2> QED
    BY <2>1, <2>2 DEF Price
<1>2. Inv /\ [Next]_vars => [Answer => told'[main.asset] # NoPrice]_vars
  BY <1>1
<1> QED
  BY Invariance, <1>2, PTL DEF Spec, AnswersPrice
=============================================================================
