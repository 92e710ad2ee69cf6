--------------------------- MODULE MCExperiments ---------------------------
(***************************************************************************)
(* The matrix of --quick with one file size: eight trials, of which the    *)
(* condition without loss or corruption comes twice for each protocol.     *)
(* The other rate is in both lists, too, as 0.1 is without --quick.        *)
(***************************************************************************)
EXTENDS Charts

MCPROTOCOLS == <<"stopwait", "gbn">>
MCFILE_SIZES == <<"10KB">>
MCLOSS_RATES == <<0, 10>>
MCCORRUPTION_RATES_BONUS == <<0, 10>>
=============================================================================
