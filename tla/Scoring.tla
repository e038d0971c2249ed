------------------------------- MODULE Scoring -------------------------------
(***************************************************************************)
(* The arithmetic of sales/qualification.py and sales/evidence.py.  Scores *)
(* are whole hundredths, rounded down where the code rounds to the nearest *)
(* hundredth.                                                              *)
(*                                                                         *)
(*   an evidence row    [type, source, tier], source: the file it is from  *)
(*   a pain point       severity, frequency, revenue_impact,               *)
(*                      automation_potential, implementation_difficulty    *)
(***************************************************************************)
EXTENDS Integers, SequencesExt

CLAIM_TIER_ORDER == <<"CLAIM", "HYPOTHESIS", "OBSERVED", "CLIENT_VERIFIED", "CASE_STUDY">>

TIER_CONFIDENCE == [CLAIM |-> 15, HYPOTHESIS |-> 40, OBSERVED |-> 70,
                    CLIENT_VERIFIED |-> 90, CASE_STUDY |-> 100]

Capped(n, cap) == IF n > cap THEN cap ELSE n

\* The best of a body of evidence; two independent clients make a case study.
corroborated_tier(rows) ==
  LET Rank(r) == CHOOSE i \in 1 .. 5 : CLAIM_TIER_ORDER[i] = r.tier
      best == CLAIM_TIER_ORDER[Max({1} \cup {Rank(r) : r \in ToSet(rows)})]
      clients == {r.source : r \in {s \in ToSet(rows) : s.tier = "CLIENT_VERIFIED"}}
  IN IF best = "CLIENT_VERIFIED" /\ Cardinality(clients) >= 2 THEN "CASE_STUDY" ELSE best

\* The rubric's formula, out of 5 * 5 * 5 * 5.
opportunity_score(p) ==
  Capped((p.severity * p.frequency * p.revenue_impact * p.automation_potential * 10000)
           \div (625 * Max({1, p.implementation_difficulty})), 10000)

\* The best point, and five for each further one up to twenty.
score_pain(points) ==
  IF points = <<>> THEN 0
  ELSE Capped(Max({opportunity_score(p) : p \in ToSet(points)})
                + Capped(500 * (Len(points) - 1), 2000), 10000)

\* The strongest row of a family, and ten for each further source up to thirty.
SignalScore(rows, types) ==
  LET hits == {r \in ToSet(rows) : r.type \in types}
      sources == {r.source : r \in hits}
  IN IF hits = {} THEN 0
     ELSE Capped(100 * (Max({TIER_CONFIDENCE[r.tier] : r \in hits})
                          + Capped(10 * (Cardinality(sources) - 1), 30)), 10000)

\* The best of the active profiles: industry, team size and geography, less a
\* twentieth for each rank after the first.
score_icp_fit(company, icps) ==
  LET Team(i) == IF i.min_team_size > 0
                 THEN IF company.team_size >= i.min_team_size THEN 2500
                      ELSE (2500 * company.team_size) \div i.min_team_size
                 ELSE IF company.team_size > 0 THEN 1250 ELSE 0
      Place(i) == IF "" \in {i.geography, company.geography} THEN 1000
                  ELSE IF i.geography = company.geography THEN 2000 ELSE 0
      Fit(i) == (IF i.industry = company.industry THEN 5500 ELSE 0) + Team(i) + Place(i)
  IN Capped(Max({0} \cup {(Fit(i) * (100 - Capped(5 * Max({0, i.rank - 1}), 30))) \div 100 : i \in icps}),
            10000)

\* The weighted sum of the six; a known decision maker makes a lead accessible.
Score(company, icps, rows, points, decision) ==
  LET access == SignalScore(rows, {"contact_info"})
  IN (25 * score_icp_fit(company, icps)
      + 25 * score_pain(points)
      + 15 * SignalScore(rows, {"urgency_signal", "hiring_signal"})
      + 15 * SignalScore(rows, {"budget_signal", "size_signal"})
      + 10 * (IF decision THEN Capped(access + 2500, 10000) ELSE access)
      + 10 * 100 * TIER_CONFIDENCE[corroborated_tier(rows)]) \div 100
=============================================================================
