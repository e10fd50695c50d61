--------------------------- MODULE ImagePromises ----------------------------
(***************************************************************************)
(* What the caller of an image operation may rely on, whichever operation  *)
(* it is: what the result depends on, what is written, and what happens to *)
(* a destination the caller supplies.  Operations that make an exception,  *)
(* by design or not, are named with the promise they break.                *)
(***************************************************************************)
EXTENDS ImageOperations

Called == call # NotCalled
Returned == Called /\ ~machine.thrown
HasImage == Returned /\ Ret(machine) # Null

Given == machine.memory[machine.arrays[Ret(machine)].mem]
MemoriesOf(pointers) == {machine.arrays[p].mem : p \in pointers \ {Null}}
Operands == MemoriesOf(ToSet(call.srcs))
Supplied == MemoriesOf({call.dst})

\* The destination is none of the arrays the caller held before the first call.
Apart == call.dst \in {Null, Result}

-----------------------------------------------------------------------------

Contents == [written : BOOLEAN, from : SUBSET Nat, reach : Nat, kept : BOOLEAN]

\* Arrays are handles of the memories there are, and what is not between two calls has
\* been put away (array.hpp, tier0.cpp).
TypeOK ==
  /\ machine.faults \subseteq Faults
  /\ machine.thrown \in BOOLEAN
  /\ machine.passes = 1 /\ machine.host = 1 /\ machine.queue = <<>>
  /\ \A k \in DOMAIN machine.memory : machine.memory[k] \in Contents
  /\ \A p \in DOMAIN machine.arrays :
       /\ machine.arrays[p].mem \in DOMAIN machine.memory
       /\ machine.arrays[p].type \in dType
       /\ machine.arrays[p].dim \in 1..3
  /\ Len(machine.ret) = 1 /\ Ret(machine) \in {Null} \cup DOMAIN machine.arrays

\* transform.cpp:85-106: interpolate, and the copy into the image throws after the image
\* has been created.  The kernel is then run on the image.
Interpolating == {"transform_affine", "affine_transform", "rigid_transform", "rotate", "scale",
                  "translate", "make_isotropic", "make_anisotropic"}
ImageWithoutCopy == call.name \in Interpolating /\ call.asked[1] = "no copy"

\* No kernel, copy or read to the host looks at memory nothing has written, or is handed a
\* null pointer: memory comes from Array::create unclear, intermediate images are created
\* on almost every path, and nothing asks before a launch whether they were.
NothingUnwrittenIsRead ==
  Called /\ Apart /\ ~ImageWithoutCopy => machine.faults \cap {"undefined", "null"} = {}

\* Operations that write a part of their destination.  Without one they return an array
\* whose other part is whatever the memory held.
WritesAPart == {"paste", "copy_slice", "copy_horizontal_slice", "copy_vertical_slice"}

\* reduce_stack.cpp: no slice is copied when the factor is larger than the depth.
NoSlice == call.name = "reduce_stack" /\ machine.arrays[Source].shape[3] < call.asked[1]

\* Every element of an image that is returned has been written (tiers 1 to 8: kernels that
\* write what data and positions say need a destination that is cleared first).
ResultIsComplete ==
  HasImage /\ Apart /\ call.name \notin WritesAPart /\ ~NoSlice => Given.written

-----------------------------------------------------------------------------
(* What the result depends on *)

\* Operations that find in their destination a part of their input.
ReadsItsDestination ==
  WritesAPart \cup {"write_values_to_positions", "deconvolve", "morphological_chan_vese"}

\* Nothing an earlier call left in a destination that is used again shows in the result,
\* whether the destination is overwritten or accumulated into (the fills before Scatter
\* kernels in tiers 1 to 8 and statistics.cpp).
NothingShowsThrough ==
  HasImage /\ call.dst = Result /\ call.name \notin ReadsItsDestination
    => Supplied \cap Given.from = {}

\* Every operand counts: no path drops one, be it that an intermediate image is filled
\* with constants after it was computed, or that values the host has read are written to
\* an array by hand (tiers 3 to 6).
DependsOnItsOperands ==
  HasImage /\ Apart /\ ~NoSlice /\ ~ImageWithoutCopy => Operands \subseteq Given.from

\* tier1/kuwahara.cpp:118-120: the kernel gets the size of the window, 2 * radius + 1, where
\* it takes half of it (tier1.hpp:933).
TakesTheWindowForItsHalf ==
  call.name = "kuwahara_filter" /\ Given.reach = 2 * call.asked[1] + 1

\* Along x the values a result depends on come from as far away as the radius, the number
\* of iterations or the two phases of an operation say, and from no farther (tier1 filters
\* over execute_separable, tiers 2, 6, 7 and 8 over tier 1).
ReachesAsFarAsAsked ==
  HasImage /\ Apart /\ call.reach # Anywhere
    => Given.reach \in call.reach \/ TakesTheWindowForItsHalf

-----------------------------------------------------------------------------
(* What is written *)

\* nonzero_*, onlyzero_*: the flag is the caller's and is raised (tier1).
RaisesAFlag ==
  {"nonzero_maximum", "nonzero_maximum_box", "nonzero_maximum_diamond", "nonzero_minimum",
   "nonzero_minimum_box", "nonzero_minimum_diamond", "onlyzero_overwrite_maximum",
   "onlyzero_overwrite_maximum_box", "onlyzero_overwrite_maximum_diamond"}

\* fft.cpp performDeconvolution: small values are removed in the caller's normalization,
\* unless it was padded.
NormalizationIsCleaned == call.name = "deconvolve" /\ call.asked[2] # Null

\* An operation writes its destination and nothing else the caller holds: not its sources,
\* although swaps of flip and flop images and writes in place make them look alike
\* (tier2/extend_labeling_via_voronoi, tier5/connected_component_labeling, tier7).
OnlyTheDestinationIsWritten ==
  Called /\ call.name \notin RaisesAFlag /\ ~NormalizationIsCleaned
    => \A k \in 1..Held : machine.memory[k].kept \/ k \in Supplied

\* sato_filter clears, morphological_chan_vese binarizes a destination before its extents
\* are compared with those of the image.
WritesBeforeItChecks == {"sato_filter", "tubeness", "morphological_chan_vese"}

\* A call that throws has not begun to write what the caller holds (partial failure of the
\* chains of calls in tiers 2 to 8).
RefusedCallWritesNothing ==
  Called /\ machine.thrown /\ call.name \notin WritesBeforeItChecks
    => \A k \in 1..Held : machine.memory[k].kept

\* tier7/closing_labels.cpp: every odd step of a radius of two or more erodes in place.
ErodesInPlace == call.name = "closing_labels" /\ call.asked[3] > 1

\* No launch reads beyond its own position an array it writes: work items run in any order
\* (the pairs of temporaries in execute_separable and in every loop of tiers 2 to 7).
NothingRaces == Called /\ Apart /\ ~ErodesInPlace => "race" \notin machine.faults

-----------------------------------------------------------------------------
(* Destinations *)

\* fft.cpp: what a padded image was computed in is cut out into an array of its own.
CutOut == {"convolve_fft", "deconvolve"}

\* tier5/merge_touching_labels.cpp:22-25: without labels that touch, the source itself.
NothingTouches == call.name = "merge_touching_labels" /\ Ret(machine) = Source

\* The array that is returned has the memory of the destination that was supplied.
ResultIsTheDestination ==
  HasImage /\ call.dst # Null /\ call.name \notin CutOut /\ ~NothingTouches
    => machine.arrays[Ret(machine)].mem \in Supplied

\* projections.cpp: the result has been reshaped when the dimension is kept, and the check
\* is against the extents before.  Lists of no spots and stacks of no slices have extents
\* of 0, which Array::create turns into 1.
AlongXOrY ==
  {"std_x_projection", "variance_x_projection", "maximum_x_projection", "minimum_x_projection",
   "mean_x_projection", "sum_x_projection", "product_x_projection",
   "x_position_of_maximum_x_projection", "x_position_of_minimum_x_projection",
   "std_y_projection", "variance_y_projection", "maximum_y_projection", "minimum_y_projection",
   "mean_y_projection", "sum_y_projection", "product_y_projection",
   "y_position_of_maximum_y_projection", "y_position_of_minimum_y_projection"}
RefusesItsOwn ==
  \/ call'.name \in AlongXOrY /\ call'.asked = <<TRUE>>
  \/ call'.name \in {"labelled_spots_to_pointlist", "spots_to_pointlist"} /\ call'.asked[2] = 0
  \/ NoSlice'

\* An array that came out of a call is accepted when the same call gets it as destination:
\* what is created and what is checked agree (tier0.cpp and the extents each operation
\* asks for).
OwnResultIsAccepted ==
  [][call'.dst = Result => ~machine'.thrown \/ RefusesItsOwn]_vars

\* A call computes into an array from an earlier call what it computes into one it creates:
\* same values, from the same distance.
DestinationMakesNoDifference ==
  [][(call'.dst = Result /\ ~machine'.thrown /\ call'.name \notin ReadsItsDestination \cup CutOut)
     => LET k == machine.arrays[Result].mem
        IN machine'.memory[k] = [machine.memory[k] EXCEPT !.kept = FALSE]]_vars

-----------------------------------------------------------------------------
(* Types and sizes *)

\* fft.cpp has FLOAT plans for whatever it is given; pointlist_to_labelled_spots.cpp reads
\* the maximum of the list into a float and copies the list into a FLOAT array.
TakesFloatForGranted ==
  {"fft", "convolve_fft", "deconvolve", "pointlist_to_labelled_spots"}

\* Elements are moved between arrays of one type, and read into host variables in which
\* their bytes are the same value (readTo and copyTo compare nothing; the flags of the
\* loops in tiers 2 to 6, the positions of tier 3, the lists of statistics.cpp).
NothingIsMisread ==
  Called /\ Apart /\ call.name \notin TakesFloatForGranted
    => machine.faults \cap {"misread", "reinterpreted"} = {}

\* tier4/parametrics_map.cpp: beyond the direct neighbours the touch matrix is taken for a
\* label image and is too small.
NeighborsOfNeighbors == Len(call.asked) = 3 /\ call.name \in
  {"mean_of_touching_neighbors_map", "minimum_of_touching_neighbors_map",
   "maximum_of_touching_neighbors_map", "standard_deviation_of_touching_neighbors_map",
   "mode_of_touching_neighbors_map", "median_of_touching_neighbors_map"} /\ call.asked[2] > 1

\* statistics.cpp: the centroids of no labels are one column, the other matrices have the
\* column of the background only.
NoLabels == call.name \in
  {"labels_neighbors_statistics", "statistics_of_labelled_neighbors",
   "touching_neighbor_count_map"} /\ (call.asked[1] = 0 \/ call.asked[2] = 0)

\* Vectors, matrices and host buffers whose extents come from different measurements (the
\* greatest label, the extents of a matrix, a count) have the extents kernels and reads
\* take for granted (statistics.cpp, tiers 1, 4, 5 and 7).
ArraysFit ==
  Called /\ Apart /\ ~NeighborsOfNeighbors /\ ~NoLabels => "misfit" \notin machine.faults

-----------------------------------------------------------------------------
(* What the documentation says and the code does not do *)

\* tier7.hpp:241-244: iterative dilation and erosion, "with every iteration" one of the
\* two structuring elements.  A closing of radius r erodes r times: its result depends on
\* labels as far away as the dilation went and r columns more (closing_labels.cpp:26-30
\* returns to the image before the erosion when r is even).
EveryErosionCounts ==
  HasImage /\ Apart /\ call.name = "closing_labels"
    => LET dilations == Min({call.asked[1], call.asked[3]})
       IN Given.reach = dilations + call.asked[3]

\* tier4.hpp:550-551: "radius 2 = neighbors of neighbors".  The matrix of neighbours of
\* neighbours has a row and a column for every label, as the map of values has
\* (parametrics_map.cpp:229-231 makes it of the touch matrix as if that were the image).
NeighborsOfNeighborsFit ==
  Called /\ Apart /\ NeighborsOfNeighbors => "misfit" \notin machine.faults

=============================================================================
