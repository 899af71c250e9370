-------------------------- MODULE CollisionAvoidance --------------------------
(***************************************************************************)
(* The collision avoidance manager: every 100 ms it takes the latest depth *)
(* image of the sensor manager, keeps the pixels in the middle of the view *)
(* (the region of interest) and stores the smallest depth for the mission  *)
(* manager.  Only the pixels with a valid depth are in an image, so that   *)
(* the region may hold none of them.                                       *)
(*                                                                         *)
(* A depth is compared with the threshold of the configuration: "near" is  *)
(* at most that far away, "far" is finite and farther, "nan" is what a     *)
(* pixel without a depth may have.                                         *)
(***************************************************************************)
CONSTANTS
  Images,    \* the depth images that occur
  NoImage    \* the null pointer

Depths == {"near", "far", "nan"}

\* An image is known by the depths in the region of interest and elsewhere.
DepthImages == [roi : SUBSET Depths, rest : SUBSET Depths]

ASSUME ImagesAssumption == Images \subseteq DepthImages /\ NoImage \notin DepthImages

VARIABLES
  image,   \* _downsampled_depth of the sensor manager
  depth    \* _depth

obstacle == <<image, depth>>

CollisionInit == image = NoImage /\ depth = "nan"

-----------------------------------------------------------------------------
\* The image is replaced by the next one and never cleared.
NewDepthImage(i) ==
  /\ image' = i
  /\ UNCHANGED depth

FirstPixel(ds) == ds                                                    \* bug
\* What std::min_element may find among pixels with these depths: nothing is
\* less than NaN and NaN is less than nothing, so a NaN is found when it is
\* the first pixel and is passed over otherwise.
MinElement(ds) ==
  (ds \cap {"nan"}) \cup (IF "near" \in ds THEN {"near"} ELSE ds \cap {"far"})

\* With no pixel left in the region the end iterator is dereferenced: it
\* points to storage that still holds a pixel the filter has erased.
MeasuredDepths(i) == IF i.roi # {} THEN MinElement(i.roi) ELSE i.rest

NoPixels == image = NoImage \/ (image.roi = {} /\ image.rest = {})

\* `enabled`: both flags of the configuration it has just copied.
ComputeDistanceToObstacle(enabled) ==
  /\ enabled
  /\ depth' \in IF NoPixels THEN {"infinite"} ELSE MeasuredDepths(image)
  /\ UNCHANGED image

CollisionTypeOK ==
  /\ image \in Images \cup {NoImage}
  /\ depth \in Depths \cup {"infinite"}

===============================================================================
