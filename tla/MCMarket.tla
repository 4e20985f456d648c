------------------------------ MODULE MCMarket ------------------------------
(* Small instances of MarketFeed for TLC.                                  *)
EXTENDS MarketFeed

Teams == [ann |-> 1, bob |-> 2]
OneTeam == [ann |-> 1]

Claim(type, side, who, comparator, halves, period) ==
  [claimType |-> type, participant |-> side, player |-> who, comparator |-> comparator,
   thresholdHalves |-> halves, period |-> period, anchorSeq |-> 0]

\* Every claim type, comparator and period, at thresholds a short match can reach.
AllClaims ==
  {Claim("match_winner", 1, "none", "gte", 2, "FT"), Claim("match_winner", 1, "none", "gte", 2, "FT_90"),
   Claim("totals_ou", 0, "none", "gte", 1, "FT"), Claim("totals_ou", 0, "none", "lte", 1, "FT_90"),
   Claim("team_scores_n", 1, "none", "gte", 2, "FT_90"), Claim("team_scores_n", 2, "none", "eq", 2, "FT"),
   Claim("btts", 0, "none", "gte", 2, "FT_90"), Claim("player_scores_n", 1, "ann", "gte", 2, "FT_90")}

TotalsClaim == {Claim("totals_ou", 0, "none", "gte", 3, "FT_90")}
WinnerClaim == {Claim("match_winner", 1, "none", "gte", 2, "FT")}
VarClaims == WinnerClaim \cup TotalsClaim
=============================================================================
