CONSTANTS
    v = v a = a b = b c = c d = d
    ann = ann bob = bob eve = eve
    None = None g1 = g1 g2 = g2
    Samples <- MCSamples Base <- MCBase RefLabel <- MCRefLabel Group <- MCGroup ManualLabel <- MCManualLabel
    Retrievals = {t1}
    Rank <- MCRank Reviewers <- MCReviewers Enriched <- MCEnriched Casts <- MCPackCasts
    Generators = {g1, g2} Clerks = {k1}
    Labels = {"benign", "exclude"}
    Targets = {2, 3} DefaultTarget = 500 MaxReviews = 4
    Queried = {}
    FreshSize = 2 RagSize = 2 HoldSize = 2
    CalTarget = 1 CoreTarget = 1 ExpansionTarget = 1 PerGroup = 1
SPECIFICATION Spec
SYMMETRY ReviewerSymmetry
INVARIANTS
  NearDuplicatesExcluded
CHECK_DEADLOCK FALSE
