----------------------------- MODULE MarketData -----------------------------
(***************************************************************************)
(* Quotes: BrokerAsset of src/src/rithmic_zorro_plugin.cpp with subscribe, *)
(* setMDReady, BestAskQuote, BestBidQuote, BestBidAskQuote and MarketMode  *)
(* of src/src/client_md.cpp and TradePrint of src/src/client_trade.cpp.    *)
(*                                                                         *)
(* The callback thread stores a quote, marks the symbol ready and, unless  *)
(* the price type is against it, posts WM_APP+1 to Zorro's window, three   *)
(* steps.  Zorro's thread answers the message by asking BrokerAsset for    *)
(* the price of every asset; BrokerAsset loads the quote and the last      *)
(* trade one after the other.  Between calls Zorro may set the price type. *)
(***************************************************************************)
EXTENDS Naturals

CONSTANTS
    Assets,      \* what Zorro subscribes
    Prices,      \* prices of quotes and trades
    PriceTypes,  \* price types that SET_PRICETYPE may set
    Faults       \* of "SubscribeFails", "Abort" and "Timeout", those that may happen

NoPrice == 0   \* NAN
Trades == 2    \* the price type that asks for the last trade

ASSUME PriceAssumption == Prices \subseteq Nat \ {NoPrice} /\ 0 \in PriceTypes /\ PriceTypes \subseteq {0, 1, Trades}
ASSUME FaultAssumption == Faults \subseteq {"SubscribeFails", "Abort", "Timeout"}

VARIABLES
    main,       \* Zorro's thread: where in BrokerAsset, for which asset
    due,        \* the assets that Zorro has to ask about after a message
    told,       \* the price that BrokerAsset last answered for this price type
    symbols,    \* the keys of symbols_
    symbol,     \* their entries
    priceType,  \* price_type_
    posted,     \* WM_APP+1 is in the queue of Zorro's window
    cb          \* the callback thread: what is left of its handler

vars == <<main, due, told, symbols, symbol, priceType, posted, cb>>

Flags == {"Top", "Status"}
MaybePrice == Prices \cup {NoPrice}

(* An entry of symbols_: the ask of top_, whose bid and sizes only go into *)
(* the spread and the volume, the price of last_trade_, and ready_.        *)
(* can_trade_ is left out: only sendOrder reads it, to refuse an order.    *)
Symbol == [ask : MaybePrice, trade : MaybePrice, ready : SUBSET Flags]

NewSymbol == [ask |-> NoPrice, trade |-> NoPrice, ready |-> {}]

MainIdle == [pc |-> "idle"]
CallbackIdle == [pc |-> "idle"]

TypeOK ==
    /\ main \in {MainIdle} \cup [pc : {"wait"}, asset : symbols]
                           \cup [pc : {"trade"}, asset : symbols, ask : MaybePrice]
    /\ due \subseteq symbols
    /\ told \in [Assets -> MaybePrice]
    /\ symbols \subseteq Assets
    /\ symbol \in [Assets -> Symbol]
    /\ priceType \in PriceTypes
    /\ posted \in BOOLEAN
    /\ cb \in {CallbackIdle} \cup [pc : {"mark"}, asset : symbols, flag : Flags]
                             \cup [pc : {"post"}, kind : {"quote", "trade"}]

Init ==
    /\ main = MainIdle
    /\ due = {} /\ told = [a \in Assets |-> NoPrice]
    /\ symbols = {} /\ symbol = [a \in Assets |-> NewSymbol]
    /\ priceType = 0
    /\ posted = FALSE
    /\ cb = CallbackIdle

-----------------------------------------------------------------------------
(* BrokerAsset. *)

(* A failed subscription leaves no entry.  Variant: BrokerAsset goes on    *)
(* as if it had one.                                                       *)
SubscribeFailsUnnoticed(a) ==
    /\ "SubscribeFails" \in Faults
    /\ main' = [pc |-> "wait", asset |-> a]
    /\ UNCHANGED <<symbols, symbol>>

SubscribeFails(a) ==
    /\ "SubscribeFails" \in Faults
    /\ UNCHANGED <<main, symbols, symbol>>

(* The first call for an asset subscribes it and, without a place for the  *)
(* price, returns.                                                         *)
Subscribe(a) ==
    /\ main = MainIdle
    /\ a \notin symbols
    /\ \/ SubscribeFails(a)
       \/ /\ symbols' = symbols \cup {a}
          /\ symbol' = [symbol EXCEPT ![a] = NewSymbol]
          /\ main' \in {MainIdle, [pc |-> "wait", asset |-> a]}
    /\ UNCHANGED <<due, told, priceType, posted, cb>>

BrokerAsset(a) ==
    /\ main = MainIdle
    /\ a \in symbols
    /\ main' = [pc |-> "wait", asset |-> a]
    /\ UNCHANGED <<due, told, symbols, symbol, priceType, posted, cb>>

LoadTop ==
    /\ main.pc = "wait"
    /\ symbol[main.asset].ready = Flags
    /\ main' = [pc |-> "trade", asset |-> main.asset, ask |-> symbol[main.asset].ask]
    /\ UNCHANGED <<due, told, symbols, symbol, priceType, posted, cb>>

Price(ask, trade) == IF priceType = Trades /\ trade # NoPrice THEN trade ELSE ask

Answer ==
    /\ main.pc = "trade"
    /\ told' = [told EXCEPT ![main.asset] = Price(main.ask, symbol[main.asset].trade)]
    /\ due' = due \ {main.asset}
    /\ main' = MainIdle
    /\ UNCHANGED <<symbols, symbol, priceType, posted, cb>>

(* SET_PRICETYPE: the prices of the other type are as good as untold.      *)
SetPriceType(type) ==
    /\ main = MainIdle
    /\ type # priceType
    /\ priceType' = type
    /\ told' = [a \in Assets |-> NoPrice]
    /\ UNCHANGED <<main, due, symbols, symbol, posted, cb>>

(* BrokerProgress returns 0, or 10 s have passed: no data.                 *)
GiveUp ==
    /\ main.pc = "wait"
    /\ symbol[main.asset].ready # Flags
    /\ Faults \cap {"Abort", "Timeout"} # {}
    /\ due' = due \ {main.asset}
    /\ main' = MainIdle
    /\ UNCHANGED <<told, symbols, symbol, priceType, posted, cb>>

(* Zorro takes WM_APP+1 from the queue of its window.                      *)
TakeMessage ==
    /\ main = MainIdle
    /\ posted
    /\ posted' = FALSE
    /\ due' = symbols
    /\ UNCHANGED <<main, told, symbols, symbol, priceType, cb>>

-----------------------------------------------------------------------------
(* The callback thread. *)

(* Variant: any first quote marks the symbol ready, the bid's as well.     *)
MarksReadyByBid(old, new) == old = NoPrice
MarksReady(old, new) == old = NoPrice /\ new # NoPrice

(* Variant: quotes are posted for any price type but the plain one.        *)
PostsOther(kind) == IF kind = "trade" THEN priceType = Trades ELSE priceType = 1
PostsFor(kind) == (kind = "trade") = (priceType = Trades)

Posting(kind) == [pc |-> "post", kind |-> kind]

(* BestAskQuote, BestBidQuote and BestBidAskQuote: with NoPrice, an update *)
(* of the bid or of a size.  Only the first ask marks the symbol ready.    *)
BestQuote(a, ask) ==
    /\ cb = CallbackIdle
    /\ a \in symbols
    /\ LET old == symbol[a].ask
           new == IF ask = NoPrice THEN old ELSE ask
       IN  /\ symbol' = [symbol EXCEPT ![a].ask = new]
           /\ cb' = IF MarksReady(old, new)
                    THEN [pc |-> "mark", asset |-> a, flag |-> "Top"]
                    ELSE Posting("quote")
    /\ UNCHANGED <<main, due, told, symbols, priceType, posted>>

MarketMode(a) ==
    /\ cb = CallbackIdle
    /\ a \in symbols
    /\ cb' = [pc |-> "mark", asset |-> a, flag |-> "Status"]
    /\ UNCHANGED <<main, due, told, symbols, symbol, priceType, posted>>

TradePrint(a, price) ==
    /\ cb = CallbackIdle
    /\ a \in symbols
    /\ symbol' = [symbol EXCEPT ![a].trade = price]
    /\ cb' = Posting("trade")
    /\ UNCHANGED <<main, due, told, symbols, priceType, posted>>

SetMDReady ==
    /\ cb.pc = "mark"
    /\ symbol' = [symbol EXCEPT ![cb.asset].ready = @ \cup {cb.flag}]
    /\ cb' = IF cb.flag = "Top" THEN Posting("quote") ELSE CallbackIdle
    /\ UNCHANGED <<main, due, told, symbols, priceType, posted>>

Post ==
    /\ cb.pc = "post"
    /\ posted' = (posted \/ PostsFor(cb.kind))
    /\ cb' = CallbackIdle
    /\ UNCHANGED <<main, due, told, symbols, symbol, priceType>>

-----------------------------------------------------------------------------

Feed(a) ==
    \/ \E ask \in MaybePrice : BestQuote(a, ask)
    \/ MarketMode(a)
    \/ \E price \in Prices : TradePrint(a, price)

Proceed == LoadTop \/ Answer \/ TakeMessage

Next ==
    \/ \E a \in Assets : Subscribe(a) \/ BrokerAsset(a) \/ Feed(a)
    \/ \E type \in PriceTypes : SetPriceType(type)
    \/ Proceed \/ GiveUp \/ SetMDReady \/ Post

Spec == Init /\ [][Next]_vars

(* Zorro's thread does not stop in a call, which gives up after 10 s, the  *)
(* callback thread finishes its handler, and Zorro takes the messages of   *)
(* its window between calls and asks about every asset after one.          *)
Fairness ==
    /\ WF_vars(LoadTop) /\ WF_vars(Answer) /\ WF_vars(GiveUp) /\ WF_vars(SetMDReady) /\ WF_vars(Post)
    /\ SF_vars(TakeMessage)
    /\ \A a \in Assets : SF_vars(a \in due /\ BrokerAsset(a))

FairSpec == Spec /\ Fairness

-----------------------------------------------------------------------------
(* Properties. *)

(* BrokerAsset answers with a price: the flags it waits for are set after  *)
(* the ask that they stand for.                                            *)
AnswersPrice == [][Answer => told'[main.asset] # NoPrice]_vars

(* What BrokerAsset would answer now.                                      *)
CurrentPrice(a) == Price(symbol[a].ask, symbol[a].trade)

(* The price that a message announces: with the price type of trades the   *)
(* ask stands in for the last trade until there is one, unannounced.       *)
Announced(a) == priceType # Trades \/ symbol[a].trade # NoPrice

(* When no message is under way, Zorro knows the current price of every    *)
(* asset it has a price of, of the type it has set.                        *)
NoPriceMissed ==
    ~posted /\ cb = CallbackIdle /\ main = MainIdle =>
        \A a \in symbols \ due : told[a] # NoPrice /\ Announced(a) => told[a] = CurrentPrice(a)

(* A price that stays is told to Zorro in the end, once Zorro has asked    *)
(* for a price and got one, unless it sets another price type.             *)
PriceArrives ==
    \A a \in Assets, p \in Prices :
        (told[a] # NoPrice /\ Announced(a) /\ CurrentPrice(a) = p)
            ~> (told[a] \in {p, NoPrice} \/ CurrentPrice(a) # p)
=============================================================================
