SPECIFICATION FairSpec
CONSTANTS
  PROTOCOLS <- MCPROTOCOLS
  FILE_SIZES <- MCFILE_SIZES
  LOSS_RATES <- MCLOSS_RATES
  CORRUPTION_RATES_BONUS <- MCCORRUPTION_RATES_BONUS
  REPRESENTATIVE_SIZES = {"100KB"}
  TRIALS = 1
  skip_bonus = FALSE
  PortTaken = TRUE
INVARIANTS ExpTypeOK NoOtherTrial NoOrphan TrialsEach CurvesFromZero
PROPERTY HarnessEnds
