-------------------------------- MODULE MCSigma --------------------------------
(* Lags of one, six and eight samples, and days of three hours of four.    *)
EXTENDS SigmaHistory
MCLags == <<1, 6, 8>>
MCNoise == <<0, 2, 1>>
=============================================================================
