------------------------------ MODULE MCServer ------------------------------
(***************************************************************************)
(* A wheel of four segments on thirteen-bit words, twenty basis points to  *)
(* 1x.  Products of bankrolls above 204, and of stakes above 25, wrap.     *)
(***************************************************************************)
EXTENDS Server, TLC

\* mult, weight.  RTP 18 of 20; practice 19 of 20; the top pays 8x.
MCRealWheel ==
    <<[mult |-> 0, weight |-> 11], [mult |-> 20, weight |-> 6],
      [mult |-> 40, weight |-> 2], [mult |-> 160, weight |-> 1]>>

MCDemoWheel ==
    <<[mult |-> 0, weight |-> 10], [mult |-> 20, weight |-> 7],
      [mult |-> 40, weight |-> 2], [mult |-> 160, weight |-> 1]>>

Sound == [rtp |-> 18, demoRTP |-> 19, rake |-> 1, referral |-> 1,
          minStake |-> 1, maxStake |-> 25, prod |-> FALSE, migrateOnBoot |-> FALSE,
          wellFormed |-> TRUE]

\* A sound one, one for development, and one of each kind that must not serve.
MCEnvs ==
    {Sound,
     [Sound EXCEPT !.migrateOnBoot = TRUE, !.maxStake = 12],
     [Sound EXCEPT !.maxStake = 27],
     [Sound EXCEPT !.referral = 2],
     [Sound EXCEPT !.wellFormed = FALSE],
     [Sound EXCEPT !.rtp = 17],
     [Sound EXCEPT !.prod = TRUE, !.migrateOnBoot = TRUE]}

MCBankrolls == {0, 8, 100, 205, 4095}
MCStakes    == {1, 12, 25, 27}
MCDraws     == {0, 16, 39}
-----------------------------------------------------------------------------
(* The tables of the repository, and the RTPs they are configured with.    *)
Segment(m, w) == [mult |-> m, weight |-> w]

ShippedWheel ==
    <<Segment(0, 1569), Segment(10000, 1000), Segment(20000, 600), Segment(0, 1569),
      Segment(50000, 400), Segment(10000, 1000), Segment(0, 1569), Segment(100000, 100),
      Segment(20000, 600), Segment(0, 1570), Segment(500000, 20), Segment(2000000, 3)>>

ShippedDemoWheel ==
    <<Segment(0, 1463), Segment(10000, 1150), Segment(20000, 650), Segment(0, 1462),
      Segment(50000, 420), Segment(10000, 1150), Segment(0, 1463), Segment(100000, 105),
      Segment(20000, 650), Segment(0, 1463), Segment(500000, 21), Segment(2000000, 3)>>

Shipped == INSTANCE Wheel WITH
    MaxInt64 <- 2147483647, BP <- 10000, Slots <- 12,
    RealWheel <- ShippedWheel, DemoWheel <- ShippedDemoWheel

\* What is shipped passes its own validation, and its RTP is a whole number.
ASSUME ShippedTablesAreValid ==
    Shipped!Validate(9000, 9700) /\ Shipped!Weighted(ShippedWheel) = 9000 * 10000
=============================================================================
