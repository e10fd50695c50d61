------------------------------- MODULE Tier1 --------------------------------
(***************************************************************************)
(* Tier 1: the other operations that launch one kernel of their own        *)
(* (tier1/).  As in Tier1Pixels an operator is named after its function;   *)
(* radii are triples of integers, a connectivity is "box" or "sphere".     *)
(***************************************************************************)
EXTENDS Tier1Pixels

-----------------------------------------------------------------------------
(* accumulate.cpp: one work item goes along the axis and writes a whole line *)

cumulative_axis(m, src, dst, axis, keep_dims, type) ==
  Then([made \in
          {create_dst(Require(m, axis \in 0..2), src, dst, Shape(m, src), type, keep_dims)} |->
  Return(Launch(made, Gather, <<src>>, <<Ret(made)>>, Shape(m, src)), Ret(made))])

cumulative_sum(m, src, dst, axis, keep_dims) ==
  cumulative_axis(m, src, dst, axis, keep_dims, accumulator_type(Type(m, src)))
cumulative_min(m, src, dst, axis, keep_dims) ==
  cumulative_axis(m, src, dst, axis, keep_dims, "UNKNOWN")
cumulative_max(m, src, dst, axis, keep_dims) ==
  cumulative_axis(m, src, dst, axis, keep_dims, "UNKNOWN")
cumulative_product(m, src, dst, axis, keep_dims) ==
  cumulative_axis(m, src, dst, axis, keep_dims, accumulator_type(Type(m, src)))

-----------------------------------------------------------------------------
(* Copies and regions: copy.cpp, copy_slice.cpp, crop.cpp, pad.cpp, paste.cpp *)

\* Equal types are copied by the driver, others converted by a kernel.
copy(m, src, dst) ==
  Then([made \in {create_like(m, src, dst, "UNKNOWN")} |->
  LET to == Ret(made)
  IN IF Type(made, src) = Type(made, to) THEN Return(CopyTo(made, src, to), to)
     ELSE execute(made, Elementwise, <<src>>, to)])

\* A destination with depth receives the slice, a flat one is the slice.
copy_slice(m, src, dst) ==
  Then([made \in {create_like(m, src, dst, "UNKNOWN")} |->
  execute(made, IF Depth(made, Ret(made)) > 1 THEN Partly ELSE Gather, <<src>>, Ret(made))])
copy_horizontal_slice(m, src, dst) == copy_slice(m, src, dst)
copy_vertical_slice(m, src, dst) == copy_slice(m, src, dst)

\* The extents of a supplied destination replace the ones asked for.
crop(m, src, dst, extents) ==
  Then([made \in {create_dst(m, src, dst, IF dst # Null THEN Shape(m, dst) ELSE extents,
                  "UNKNOWN", FALSE)} |->
  execute(made, Gather, <<src>>, Ret(made))])

paste(m, src, dst) ==
  Then([made \in {create_like(m, src, dst, "UNKNOWN")} |->
  Return(Launch(made, Partly, <<src>>, <<Ret(made)>>, Shape(m, src)), Ret(made))])

pad(m, src, dst, extents) ==
  Then([made \in {create_dst(m, src, dst, extents, "UNKNOWN", FALSE)} |->
  Then([cleared \in {Fill(made, Ret(made))} |->
  Return(CopyRegion(cleared, src, Ret(made), Shape(m, src)), Ret(made))])])

unpad(m, src, dst, extents) ==
  Then([made \in {create_dst(m, src, dst, extents, "UNKNOWN", FALSE)} |->
  Return(CopyRegion(made, src, Ret(made), Shape(made, Ret(made))), Ret(made))])

circular_shift(m, src, dst) ==
  Then([made \in {create_like(m, src, dst, "UNKNOWN")} |->
  Return(Launch(made, Gather, <<src>>, <<Ret(made)>>, Shape(m, src)), Ret(made))])

flip(m, src, dst) == Like(m, Gather, src, dst, "UNKNOWN")

\* transposes.cpp: a supplied destination is not compared with the source.
Transposed(m, src, dst, permuted, dim) ==
  Then([made \in {IF dst # Null THEN Return(m, dst) ELSE Create(m, permuted, dim, Type(m, src))} |->
  execute(made, Gather, <<src>>, Ret(made))])

transpose_xy(m, src, dst) ==
  LET permuted == <<Height(m, src), Width(m, src), Depth(m, src)>>
  IN Transposed(m, src, dst, permuted, shape_to_dimension(permuted))
transpose_xz(m, src, dst) ==
  LET permuted == <<Depth(m, src), Height(m, src), Width(m, src)>>
  IN Transposed(m, src, dst, permuted, shape_to_dimension(permuted))
transpose_yz(m, src, dst) ==
  Transposed(m, src, dst, <<Width(m, src), Depth(m, src), Height(m, src)>>, 3)

\* range.cpp: how many positions a strided walk visits.
range_size(start, stop, step) ==
  LET distance(n) == IF n < 0 THEN -n ELSE n
      stride == Max({distance(step), 1})
  IN Max({(distance(stop - start) + stride - 1) \div stride, 1})

\* walk: for each axis start, stop and step.
RangeShape(walk) == [i \in 1..3 |-> range_size(walk[i][1], walk[i][2], walk[i][3])]

gather(m, src, dst, walk) ==
  Then([made \in
      {IF dst # Null THEN Return(m, dst)
       ELSE create_dst(m, src, dst, RangeShape(walk), Type(m, src), FALSE)} |->
  Return(Launch(made, Gather, <<src>>, <<Ret(made)>>, RangeShape(walk)), Ret(made))])
range(m, src, dst, walk) == gather(m, src, dst, walk)

scatter(m, src, dst, walk) ==
  Return(Launch(Require(m, dst # Null), Scatter, <<src>>, <<dst>>, RangeShape(walk)), dst)

-----------------------------------------------------------------------------
(* Neighbourhoods *)

binary_edge_detection(m, src, dst) == Like(m, Stencil, src, dst, BOOL)
detect_label_edges(m, src, dst) == Like(m, Stencil, src, dst, BOOL)
gradient_x(m, src, dst) == Like(m, Stencil, src, dst, "FLOAT")
gradient_y(m, src, dst) == Like(m, Around(<<0, 1, 0>>), src, dst, "FLOAT")
gradient_z(m, src, dst) == Like(m, Around(<<0, 0, 1>>), src, dst, "FLOAT")
sobel(m, src, dst) == Like(m, Stencil, src, dst, "FLOAT")
laplace(m, src, dst, connectivity) == Like(m, Stencil, src, dst, "FLOAT")
laplace_box(m, src, dst) == laplace(m, src, dst, "box")
laplace_diamond(m, src, dst) == laplace(m, src, dst, "sphere")

\* The kernel's text is beside its caller: it goes its parameter far in every direction,
\* and is handed the size of the window for it.
kuwahara_filter(m, src, dst, radius) ==
  LET kernel_size == 2 * radius + 1
  IN Like(m, Around(<<kernel_size, kernel_size, kernel_size>>), src, dst, Type(m, src))

\* An image that is not binary is converted first.
AsBinary(m, src) ==
  IF Type(m, src) = BOOL THEN Return(m, src)
  ELSE Then([made \in {create_like(m, src, Null, BOOL)} |->
       copy(made, src, Ret(made))])

binary_supinf(m, src, dst) ==
  Then([in \in {AsBinary(m, src)} |->
  Then([made \in {create_like(in, src, dst, BOOL)} |->
  execute(made, Stencil, <<Ret(in)>>, Ret(made))])])
binary_infsup(m, src, dst) ==
  Then([in \in {AsBinary(m, src)} |->
  Then([made \in {create_like(in, src, dst, BOOL)} |->
  execute(made, Stencil, <<Ret(in)>>, Ret(made))])])

convolve(m, src0, src1, dst) ==
  LikeWith(m, Stencil, src0, src1, dst, Promoted(m, src0, src1))
local_cross_correlation(m, src, by, dst) == LikeWith(m, Stencil, src, by, dst, "FLOAT")

\* The destination is created before the footprint is compared with the source.
Footprint(m, src, footprint, dst) ==
  Then([made \in {create_like(m, src, dst, "UNKNOWN")} |->
  execute(Require(made, Array(m, src).dim = Array(m, footprint).dim),
          Stencil, <<src, footprint>>, Ret(made))])
dilation(m, src, footprint, dst) == Footprint(m, src, footprint, dst)
erosion(m, src, footprint, dst) == Footprint(m, src, footprint, dst)

binary_dilate(m, src, dst, radius, connectivity) ==
  Like(m, Around(radius), src, dst, "UNKNOWN")
binary_erode(m, src, dst, radius, connectivity) ==
  Like(m, Around(radius), src, dst, "UNKNOWN")
dilate_box(m, src, dst) == binary_dilate(m, src, dst, <<1, 1, 1>>, "box")
dilate_sphere(m, src, dst) == binary_dilate(m, src, dst, <<1, 1, 1>>, "sphere")
erode_box(m, src, dst) == binary_erode(m, src, dst, <<1, 1, 1>>, "box")
erode_sphere(m, src, dst) == binary_erode(m, src, dst, <<1, 1, 1>>, "sphere")

\* A box is filtered axis by axis, a sphere at once.
Filter(m, src, dst, radius, connectivity) ==
  Then([made \in {create_like(m, src, dst, "UNKNOWN")} |->
  IF connectivity = "sphere" THEN execute(made, Around(radius), <<src>>, Ret(made))
  ELSE execute_separable(made, src, Ret(made), radius)])

maximum_filter(m, src, dst, radius, connectivity) == Filter(m, src, dst, radius, connectivity)
maximum_box(m, src, dst, radius) == maximum_filter(m, src, dst, radius, "box")
maximum_sphere(m, src, dst, radius) == maximum_filter(m, src, dst, radius, "sphere")
minimum_filter(m, src, dst, radius, connectivity) == Filter(m, src, dst, radius, connectivity)
minimum_box(m, src, dst, radius) == minimum_filter(m, src, dst, radius, "box")
minimum_sphere(m, src, dst, radius) == minimum_filter(m, src, dst, radius, "sphere")
mean_filter(m, src, dst, radius, connectivity) == Filter(m, src, dst, radius, connectivity)
mean_box(m, src, dst, radius) == mean_filter(m, src, dst, radius, "box")
mean_sphere(m, src, dst, radius) == mean_filter(m, src, dst, radius, "sphere")

grayscale_dilate(m, src, dst, radius, connectivity) ==
  maximum_filter(m, src, dst, radius, connectivity)
grayscale_erode(m, src, dst, radius, connectivity) ==
  minimum_filter(m, src, dst, radius, connectivity)

median(m, src, dst, radius, connectivity) == Like(m, Around(radius), src, dst, "UNKNOWN")
median_box(m, src, dst, radius) == median(m, src, dst, radius, "box")
median_sphere(m, src, dst, radius) == median(m, src, dst, radius, "sphere")
mode(m, src, dst, radius, connectivity) == Like(m, Around(radius), src, dst, "UINT8")
mode_box(m, src, dst, radius) == mode(m, src, dst, radius, "box")
mode_sphere(m, src, dst, radius) == mode(m, src, dst, radius, "sphere")
variance_filter(m, src, dst, radius, connectivity) ==
  Like(m, Around(radius), src, dst, "FLOAT")
variance_box(m, src, dst, radius) == variance_filter(m, src, dst, radius, "box")
variance_sphere(m, src, dst, radius) == variance_filter(m, src, dst, radius, "sphere")

\* gaussian_blur.cpp: a source that is not FLOAT is converted into a temporary.
Gaussian(m, src, dst, sigma) ==
  Then([made \in {create_like(m, src, dst, "FLOAT")} |->
  Then([temp \in
      {IF Type(m, src) = "FLOAT" THEN Return(made, src)
       ELSE Then([tmp \in {CreateAs(made, Ret(made))} |-> copy(tmp, src, Ret(tmp))])} |->
  execute_separable(temp, Ret(temp), Ret(made), sigma)])])
gaussian_blur(m, src, dst, sigma) == Gaussian(m, src, dst, sigma)
gaussian_derivative(m, src, dst, sigma) == Gaussian(m, src, dst, sigma)

\* The middle eigenvalue of a flat image is a placeholder that is not returned.
hessian_eigenvalues(m, src, small, middle, large) ==
  Then([s \in {create_like(m, src, small, "FLOAT")} |->
  Then([l \in {create_like(s, src, large, "FLOAT")} |->
  Then([c \in
      {IF Depth(m, src) > 1 THEN create_like(l, src, middle, "FLOAT")
       ELSE create_one(l, src, middle, "FLOAT")} |->
  Then([done \in {Launch(c, Stencil, <<src>>, <<Ret(s), Ret(c), Ret(l)>>, Shape(m, src))} |->
  [done EXCEPT !.ret = IF Depth(m, src) = 1 THEN <<Ret(l), Ret(s)>>
                       ELSE <<Ret(l), Ret(c), Ret(s)>>]])])])])

\* One pass of a wave front: the flag is raised where the image changed.
Flagged(m, src, flag, dst) ==
  Then([made \in {create_like(m, src, dst, "UNKNOWN")} |->
  Then([swept \in {execute(made, Stencil, <<src>>, Ret(made))} |->
  Return(Launch(swept, Scatter, <<src>>, <<flag>>, Shape(m, flag)), Ret(made))])])

nonzero_maximum(m, src, dst0, dst1, connectivity) == Flagged(m, src, dst0, dst1)
nonzero_maximum_box(m, src, dst0, dst1) == nonzero_maximum(m, src, dst0, dst1, "box")
nonzero_maximum_diamond(m, src, dst0, dst1) == nonzero_maximum(m, src, dst0, dst1, "sphere")
nonzero_minimum(m, src, dst0, dst1, connectivity) == Flagged(m, src, dst0, dst1)
nonzero_minimum_box(m, src, dst0, dst1) == nonzero_minimum(m, src, dst0, dst1, "box")
nonzero_minimum_diamond(m, src, dst0, dst1) == nonzero_minimum(m, src, dst0, dst1, "sphere")
onlyzero_overwrite_maximum(m, src, flag, dst, connectivity) == Flagged(m, src, flag, dst)
onlyzero_overwrite_maximum_box(m, src, flag, dst) ==
  onlyzero_overwrite_maximum(m, src, flag, dst, "box")
onlyzero_overwrite_maximum_diamond(m, src, flag, dst) ==
  onlyzero_overwrite_maximum(m, src, flag, dst, "sphere")

-----------------------------------------------------------------------------
(* Projections: projections.cpp *)

\* keepdims_x and keepdims_y: the result under the extents of a projected image.
keepdims(m, src, dst, axis) ==
  Reshape(m, dst, IF axis = 0 THEN <<1, Width(m, dst), Height(m, dst)>>
                  ELSE <<Width(m, dst), 1, Height(m, dst)>>, Array(m, src).dim)

\* The extents that create_yz, create_xz and create_xy ask for.
Remaining(shape, axis) == CASE axis = 0 -> Section(shape, 2, 3)
                            [] axis = 1 -> Section(shape, 1, 3)
                            [] OTHER -> Section(shape, 1, 2)

\* The launch over a destination that is there, and its dimension.
Reduced(made, src, axis, keep_dims) ==
  Then([done \in
          {Launch(made, Gather, <<src>>, <<Ret(made)>>, Section(Shape(made, Ret(made)), 1, 2))} |->
  IF keep_dims /\ axis < 2 THEN keepdims(done, src, Ret(done), axis) ELSE done])

axis_projection(m, src, dst, axis, keep_dims, type) ==
  Then([made \in {create_dst(m, src, dst, Remaining(Shape(m, src), axis), type, keep_dims)} |->
  Reduced(made, src, axis, keep_dims)])

deviation_projection(m, src, dst, axis, keep_dims) ==
  axis_projection(m, src, dst, axis, keep_dims, "FLOAT")

std_x_projection(m, src, dst, keep_dims) == deviation_projection(m, src, dst, 0, keep_dims)
std_y_projection(m, src, dst, keep_dims) == deviation_projection(m, src, dst, 1, keep_dims)
std_z_projection(m, src, dst, keep_dims) == deviation_projection(m, src, dst, 2, keep_dims)
variance_x_projection(m, src, dst, keep_dims) == deviation_projection(m, src, dst, 0, keep_dims)
variance_y_projection(m, src, dst, keep_dims) == deviation_projection(m, src, dst, 1, keep_dims)
variance_z_projection(m, src, dst, keep_dims) == deviation_projection(m, src, dst, 2, keep_dims)
maximum_x_projection(m, src, dst, keep_dims) ==
  axis_projection(m, src, dst, 0, keep_dims, "UNKNOWN")
maximum_y_projection(m, src, dst, keep_dims) ==
  axis_projection(m, src, dst, 1, keep_dims, "UNKNOWN")
maximum_z_projection(m, src, dst, keep_dims) ==
  axis_projection(m, src, dst, 2, keep_dims, "UNKNOWN")
minimum_x_projection(m, src, dst, keep_dims) ==
  axis_projection(m, src, dst, 0, keep_dims, "UNKNOWN")
minimum_y_projection(m, src, dst, keep_dims) ==
  axis_projection(m, src, dst, 1, keep_dims, "UNKNOWN")
minimum_z_projection(m, src, dst, keep_dims) ==
  axis_projection(m, src, dst, 2, keep_dims, "UNKNOWN")
mean_x_projection(m, src, dst, keep_dims) ==
  axis_projection(m, src, dst, 0, keep_dims, "FLOAT")
mean_y_projection(m, src, dst, keep_dims) ==
  axis_projection(m, src, dst, 1, keep_dims, "FLOAT")
mean_z_projection(m, src, dst, keep_dims) ==
  axis_projection(m, src, dst, 2, keep_dims, "FLOAT")
sum_x_projection(m, src, dst, keep_dims) ==
  axis_projection(m, src, dst, 0, keep_dims, accumulator_type(Type(m, src)))
sum_y_projection(m, src, dst, keep_dims) ==
  axis_projection(m, src, dst, 1, keep_dims, accumulator_type(Type(m, src)))
sum_z_projection(m, src, dst, keep_dims) ==
  axis_projection(m, src, dst, 2, keep_dims, accumulator_type(Type(m, src)))
product_x_projection(m, src, dst, keep_dims) ==
  axis_projection(m, src, dst, 0, keep_dims, accumulator_type(Type(m, src)))
product_y_projection(m, src, dst, keep_dims) ==
  axis_projection(m, src, dst, 1, keep_dims, accumulator_type(Type(m, src)))
product_z_projection(m, src, dst, keep_dims) ==
  axis_projection(m, src, dst, 2, keep_dims, accumulator_type(Type(m, src)))

x_position_of_maximum_x_projection(m, src, dst, keep_dims) ==
  Then([made \in {create_yz(m, src, dst, INDEX, keep_dims)} |->
  Reduced(made, src, 0, keep_dims)])
x_position_of_minimum_x_projection(m, src, dst, keep_dims) ==
  Then([made \in {create_yz(m, src, dst, INDEX, keep_dims)} |->
  Reduced(made, src, 0, keep_dims)])
y_position_of_maximum_y_projection(m, src, dst, keep_dims) ==
  Then([made \in {create_xz(m, src, dst, INDEX, keep_dims)} |->
  Reduced(made, src, 1, keep_dims)])
y_position_of_minimum_y_projection(m, src, dst, keep_dims) ==
  Then([made \in {create_xz(m, src, dst, INDEX, keep_dims)} |->
  Reduced(made, src, 1, keep_dims)])
z_position_of_maximum_z_projection(m, src, dst, keep_dims) ==
  Then([made \in {create_xy(m, src, dst, INDEX, keep_dims)} |->
  Reduced(made, src, 2, keep_dims)])
z_position_of_minimum_z_projection(m, src, dst, keep_dims) ==
  Then([made \in {create_xy(m, src, dst, INDEX, keep_dims)} |->
  Reduced(made, src, 2, keep_dims)])

z_position_projection(m, src, position, dst) ==
  Then([made \in {create_xy(m, src, dst, "UNKNOWN", FALSE)} |->
  execute(made, Gather, <<src, position>>, Ret(made))])

\* Both results are written, the first is returned.
minimum_of_masked_pixels_reduction(m, src, by, reduced_src, reduced_mask) ==
  Then([r \in {create_xy(m, src, reduced_src, "UNKNOWN", FALSE)} |->
  Then([q \in {create_xy(r, by, reduced_mask, "UNKNOWN", FALSE)} |->
  Return(Launch(q, Gather, <<src, by>>, <<Ret(r), Ret(q)>>, Shape(q, Ret(r))), Ret(r))])])

-----------------------------------------------------------------------------
(* Lists, tables and matrices *)

\* Sums of blocks along the last axis with extent; an incomplete block is left out.
sum_reduction_x(m, src, dst, blocksize) ==
  LET axis == shape_to_dimension(Shape(m, src))
  IN Then([made \in
         {IF dst # Null THEN Return(m, dst)
          ELSE Create(m, [Shape(m, src) EXCEPT ![axis] = @ \div blocksize],
                      1, Type(m, src))} |->
  execute(made, Gather, <<src>>, Ret(made))])

\* One work item numbers a whole block of src0, whose predecessors src1 has summed up.
block_enumerate(m, src0, src1, dst, blocksize) ==
  Then([made \in {create_like(m, src0, dst, "FLOAT")} |->
  LET numbered == [Shape(m, src1) EXCEPT ![1] = @ * blocksize]
  IN Return(Launch(made, Gather, <<src0, src1>>, <<Ret(made)>>, numbered), Ret(made))])

replace_values(m, src0, src1, dst) ==
  LikeWith(m, Lookup, src0, src1, dst, Promoted(m, src0, src1))
replace_intensities(m, src0, src1, dst) == replace_values(m, src0, src1, dst)

read_values_from_positions(m, src, list, dst) ==
  Then([made \in {create_vector(m, src, dst, Width(m, list), "UNKNOWN")} |->
  execute(made, Gather, <<src, list>>, Ret(made))])

\* Without a destination the largest position of each axis gives the extents.
write_values_to_positions(m, list, dst) ==
  LET Extent(height) == IF Height(m, list) > height THEN m.host + 1 ELSE 1
      extents == <<Extent(0), Extent(2), Extent(3)>>
  IN Then([made \in
         {IF dst # Null THEN Return(m, dst)
          ELSE Then([temp \in {Create(m, <<Height(m, list), 1, 1>>, 2, "INT32")} |->
               Then([maxima \in {maximum_x_projection(temp, list, Ret(temp), FALSE)} |->
               Then([created \in {Create(ReadTo(maxima, Ret(temp), "INT32"), extents,
                           shape_to_dimension(extents), Type(m, list))} |->
               Fill(created, Ret(created))])])])} |->
     Return(Launch(made, Scatter, <<list>>, <<Ret(made)>>, <<Width(m, list), 1, 1>>), Ret(made))])

\* Both extents come from the first list.
generate_distance_matrix(m, list1, list2, dst) ==
  LET n == Width(m, list1) + 1
  IN Then([made \in {create_dst(m, list1, dst, <<n, n, 1>>, "FLOAT", FALSE)} |->
  execute(Fill(made, Ret(made)), Gather, <<list1, list2>>, Ret(made))])

multiply_matrix(m, matrix1, matrix2, dst) ==
  Then([made \in {create_dst(m, matrix1, dst, <<Width(m, matrix2), Height(m, matrix1), 1>>,
                  "FLOAT", FALSE)} |->
  execute(made, Gather, <<matrix1, matrix2>>, Ret(made))])

\* distance_neighbour_statistics.cpp: one value for each column of the first matrix.
OfColumns(m, srcs, dst) ==
  Then([made \in {create_vector(m, srcs[1], dst, Width(m, srcs[1]), "FLOAT")} |->
  LET fit == \A i \in DOMAIN srcs : Shape(m, srcs[i]) = Shape(m, srcs[1])
  IN execute(Fit(made, fit), Gather, srcs, Ret(made))])

minimum_distance_touching_neighbors(m, distances, touch, dst) ==
  OfColumns(m, <<distances, touch>>, dst)
maximum_distance_touching_neighbors(m, distances, touch, dst) ==
  OfColumns(m, <<distances, touch>>, dst)
mean_distance_touching_neighbors(m, distances, touch, dst) ==
  OfColumns(m, <<distances, touch>>, dst)
average_distance_touching_neighbors(m, distances, touch, dst) ==
  mean_distance_touching_neighbors(m, distances, touch, dst)
mean_distance_n_nearest_neighbors(m, distances, dst) == OfColumns(m, <<distances>>, dst)
maximum_distance_n_nearest_neighbors(m, distances, dst) == OfColumns(m, <<distances>>, dst)
mean_distance_n_farthest_neighbors(m, distances, dst) == OfColumns(m, <<distances>>, dst)
average_distance_of_n_nearest_distances(m, distances, dst) ==
  mean_distance_n_nearest_neighbors(m, distances, dst)
maximum_distance_of_n_shortest_distances(m, distances, dst) ==
  maximum_distance_n_nearest_neighbors(m, distances, dst)
average_distance_of_n_far_off_distances(m, distances, dst) ==
  mean_distance_n_farthest_neighbors(m, distances, dst)

\* neighbor_computation.cpp: one value for each element of the vector, from the elements
\* its column of the matrix marks.
OfNeighbors(m, vector, matrix, dst) ==
  LikeWith(Fit(m, Width(m, vector) = Width(m, matrix)), Gather, vector, matrix, dst, "FLOAT")

mean_of_touching_neighbors(m, vector, matrix, dst) == OfNeighbors(m, vector, matrix, dst)
median_of_touching_neighbors(m, vector, matrix, dst) == OfNeighbors(m, vector, matrix, dst)
minimum_of_touching_neighbors(m, vector, matrix, dst) == OfNeighbors(m, vector, matrix, dst)
maximum_of_touching_neighbors(m, vector, matrix, dst) == OfNeighbors(m, vector, matrix, dst)
standard_deviation_of_touching_neighbors(m, vector, matrix, dst) ==
  OfNeighbors(m, vector, matrix, dst)
mode_of_touching_neighbors(m, vector, matrix, dst) == OfNeighbors(m, vector, matrix, dst)

-----------------------------------------------------------------------------
(* Writes in place: set_operations.cpp *)

set(m, src) == execute(m, Elementwise, <<>>, src)
set_ramp_x(m, src) == execute(m, Elementwise, <<>>, src)
set_ramp_y(m, src) == execute(m, Elementwise, <<>>, src)
set_ramp_z(m, src) == execute(m, Elementwise, <<>>, src)
set_row(m, src) == execute(m, Partly, <<>>, src)
set_column(m, src) == execute(m, Partly, <<>>, src)
set_plane(m, src) == execute(m, Partly, <<>>, src)
set_image_borders(m, src) == execute(m, Partly, <<>>, src)
set_where_x_equals_y(m, src) == execute(m, Partly, <<>>, src)
set_where_x_greater_than_y(m, src) == execute(m, Partly, <<>>, src)
set_where_x_smaller_than_y(m, src) == execute(m, Partly, <<>>, src)

=============================================================================
