------------------------------- MODULE MCPool ------------------------------
(***************************************************************************)
(* Small instances of one pool.                                            *)
(***************************************************************************)
EXTENDS PoolProperties, TLC

\* Risk parameters, as fractions of the instance's WAD: surplus above no hurdle is split
\* between the reserve, the LPs and the protocol.
MCRiskParams == {[reserveRate |-> WAD \div 4, reserveTarget |-> 2, protocolHurdleFrac |-> 0,
                  lpBonusShare |-> WAD \div 2]}
MCBonusParams == {[reserveRate |-> 0, reserveTarget |-> 0, protocolHurdleFrac |-> 0,
                   lpBonusShare |-> WAD]}

MCLpSymmetry == Permutations(LPs)
MCRefSymmetry == Permutations(Refs)
=============================================================================
