------------------------------ MODULE LaneRange ------------------------------
(***************************************************************************)
(* How cg_rf_ole_batch.hpp shards a batch of n ciphertexts over lanes: the *)
(* peers tag no item with its index, so both compute every lane's range    *)
(* from n and the number of lanes alone.                                   *)
(***************************************************************************)
EXTENDS Integers

MaxLanes == 64    \* rf_transport_lanes

Least(a, b) == IF a <= b THEN a ELSE b
Greatest(a, b) == IF a >= b THEN a ELSE b

\* rf_lane_range(n, lanes, lane) is RfLaneBegin(...) .. RfLaneEnd(...) - 1.
\* n / lanes and n % lanes are taken apart so that no product exceeds n * 64.
RfLaneBegin(n, lanes, lane) ==
    (n \div lanes) * lane + ((n % lanes) * lane) \div lanes

RfLaneEnd(n, lanes, lane) ==
    (n \div lanes) * (lane + 1) + ((n % lanes) * (lane + 1)) \div lanes

\* rf_lane_range_intersection(n, lanes, lane, begin, end)
SliceBegin(n, lanes, lane, begin) == Greatest(RfLaneBegin(n, lanes, lane), begin)
SliceEnd(n, lanes, lane, end) == Least(RfLaneEnd(n, lanes, lane), end)

\* Where a lane is when everything below i has been transferred.
Reached(n, lanes, lane, i) ==
    Least(RfLaneEnd(n, lanes, lane), Greatest(RfLaneBegin(n, lanes, lane), i))
==============================================================================
