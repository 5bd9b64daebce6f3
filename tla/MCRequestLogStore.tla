-------------------------- MODULE MCRequestLogStore --------------------------
(* Small instances of RequestLogStore: one or two plugin instances, one       *)
(* backoff window, and an old requests.json that holds its rows twice.        *)
EXTENDS RequestLogStore

CONSTANTS old, new, w1

MCOneInstance == {old}
MCTwoInstances == {old, new}
MCWindows == {w1}
MCRetentions == {1, 2}

LegacyRow == [id |-> 0, key |-> w1, count |-> 1]
MCLegacies == {<<>>, <<LegacyRow, LegacyRow>>}
MCNoLegacy == {<<>>}
MCOneRetention == {2}
=============================================================================
