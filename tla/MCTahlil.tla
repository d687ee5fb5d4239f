-------------------------------- MODULE MCTahlil --------------------------------
(* The analysis behind a signal, the budget a trade draws on and the replay over *)
(* past candles: parts of the program that share no state, each with a scene of *)
(* its own.                                                                     *)
EXTENDS Grafik, Bloklar, RiskByudjeti, Sinov

CONSTANTS BTC, ETH, ASOSIY

VARIABLE sahna

\* A chart as its closes and wicks, from a first price of 200.
Grafigi(q) ==
    [i \in 1..Len(q) |->
        LET ochilish == IF i = 1 THEN 200 ELSE q[i - 1][1] IN
        Sham(ochilish, q[i][1] - ochilish, [yuqori |-> q[i][2], past |-> q[i][3], rad |-> FALSE])]

Keng == <<<<203, 1, 1>>, <<207, 1, 1>>, <<214, 4, 1>>, <<206, 1, 1>>, <<197, 1, 4>>, <<199, 1, 1>>, <<200, 1, 1>>, <<200, 2, 1>>, <<196, 1, 1>>, <<188, 1, 1>>, <<189, 1, 11>>, <<192, 1, 1>>, <<195, 1, 1>>>>
Buzilish == <<<<203, 1, 1>>, <<200, 1, 1>>, <<198, 1, 5>>, <<199, 1, 1>>, <<200, 1, 1>>, <<200, 3, 1>>>>
Kesishma == <<<<212, 1, 1>>, <<200, 1, 1>>, <<192, 9, 1>>, <<192, 9, 9>>, <<204, 1, 1>>, <<216, 9, 1>>, <<216, 1, 1>>, <<220, 1, 1>>>>
UchTp == <<<<196, 1, 1>>, <<185, 1, 1>>, <<190, 1, 1>>, <<179, 9, 1>>, <<175, 1, 1>>, <<164, 1, 9>>, <<176, 9, 1>>, <<172, 1, 1>>, <<168, 1, 1>>, <<180, 9, 1>>>>
Ortda == <<<<200, 1, 1>>, <<196, 1, 1>>, <<192, 9, 1>>, <<188, 9, 9>>, <<200, 1, 1>>, <<213, 1, 1>>, <<210, 9, 1>>, <<214, 1, 1>>>>
Yaqin == <<<<212, 9, 9>>, <<208, 1, 1>>, <<213, 9, 9>>, <<194, 1, 1>>, <<190, 1, 1>>, <<202, 9, 9>>, <<214, 9, 1>>, <<210, 1, 1>>>>
Yalangan == <<<<200, 1, 9>>, <<189, 1, 9>>, <<178, 1, 9>>, <<190, 1, 1>>, <<179, 1, 1>>, <<175, 1, 9>>, <<187, 9, 9>>, <<192, 1, 1>>>>
QoshTub == <<<<212, 9, 9>>, <<204, 1, 1>>, <<189, 1, 9>>, <<197, 9, 1>>, <<205, 9, 9>>, <<197, 1, 1>>, <<194, 1, 9>>, <<198, 1, 1>>>>
\* A double bottom whose neck is under its bottoms: the fall between them left no
\* swing low, for its candles have one low.
PastBoyin == <<<<200, 1, 1>>, <<200, 1, 1>>, <<200, 1, 24>>, <<200, 1, 1>>, <<198, 1, 1>>, <<196, 1, 6>>, <<197, 1, 1>>, <<196, 1, 1>>, <<175, 1, 5>>, <<176, 1, 5>>, <<177, 1, 6>>, <<177, 8, 7>>, <<177, 1, 7>>, <<178, 1, 7>>, <<196, 1, 8>>, <<197, 1, 1>>, <<197, 1, 1>>, <<197, 1, 6>>, <<198, 1, 1>>, <<204, 6, 1>>, <<200, 1, 1>>, <<196, 1, 1>>>>
\* A coin listed today.
YangiCoin == <<<<203, 1, 1>>>>

MCTarixlar == {Grafigi(q) : q \in {YangiCoin, Keng, Buzilish, Kesishma, UchTp, Ortda, Yaqin, Yalangan, QoshTub, PastBoyin}}
MCDumlar ==
    {[yuqori |-> y, past |-> p, rad |-> FALSE] : y \in {1, 9}, p \in {1, 9}} \cup
    {[yuqori |-> 9, past |-> 1, rad |-> TRUE]}
MCQadamlar == {-11, -4, 0, 12}

MCSanoqlar ==
    {[ha |-> 0, yoq |-> 0], [ha |-> 0, yoq |-> 2], [ha |-> 1, yoq |-> 0],
     [ha |-> 1, yoq |-> 1], [ha |-> 1, yoq |-> 3], [ha |-> 2, yoq |-> 1]}

MCPogonalar == <<[max |-> 100, pct |-> 3], [max |-> 0, pct |-> 2]>>

\* The replay: two coins of one group; every candle of the first, and one that
\* fills the limit and leaves the trade open for the second.
MCRamzlar == <<BTC, ETH>>
MCGuruhlar == [c \in {BTC, ETH} |-> ASOSIY]
MCShamlar == [c \in {BTC, ETH} |->
    IF c = BTC THEN Kuzatuvchi!Sham
    ELSE {h \in Kuzatuvchi!Sham : h.low = ENTRY /\ h.high = 0}]
MCSigimlar ==
    {[sigim |-> FALSE, max_open |-> 0, max_guruh |-> 0],
     [sigim |-> TRUE, max_open |-> 1, max_guruh |-> 2],
     [sigim |-> TRUE, max_open |-> 2, max_guruh |-> 1]}

\* Where there are no limits the confidence of a candidate decides nothing.
Sinaladi == SNext /\ (~sigimi.sigim => \A c \in Coinlari : nomzodi'[c] # 1)

\* A scene starts in every state its own module starts in, the others in one.
MCInit ==
    /\ GInit /\ BInit /\ RInit /\ SInit
    /\ sahna \in {"grafik", "bloklar", "byudjet", "obunachi", "sinov"}
    /\ sahna # "grafik" => shamlar = Grafigi(YangiCoin)
    /\ sahna # "bloklar" =>
          /\ ~tosiq /\ otadi /\ oquvchi = "zanjir"
          /\ ochirilgan = [blok |-> 1, nima |-> "ha"]
    \* The filter is the panel's, the shadow the chain's.
    /\ IF oquvchi = "zanjir" THEN otadi ELSE ochirilgan = [blok |-> 1, nima |-> "ha"]
    /\ sahna \notin {"byudjet", "obunachi"} => usul = "equal_split" /\ balans = 100
    /\ sahna # "sinov" => ~sigimi.sigim

\* Bound: a long chart takes two steps, for it is long to read.
UZUN == 13
Qisqa == Son - yangi >= UZUN => yangi < 2

MCNext ==
    /\ UNCHANGED sahna
    /\ CASE sahna = "grafik"  -> Qisqa /\ GNext /\ UNCHANGED <<bvars, rvars, svars>>
         [] sahna = "bloklar" -> BNext /\ UNCHANGED <<gvars, rvars, svars>>
         [] sahna = "byudjet" -> HisobNext /\ UNCHANGED <<gvars, bvars, svars>>
         [] sahna = "sinov"   -> Sinaladi /\ UNCHANGED <<gvars, bvars, rvars>>
         [] OTHER             -> /\ \E stop \in Stoplar : ObunachiKirdi(stop)
                                 /\ UNCHANGED <<gvars, bvars, svars>>

MCSpec == MCInit /\ [][MCNext]_<<gvars, bvars, rvars, svars, sahna>>
=============================================================================
