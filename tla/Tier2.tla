------------------------------- MODULE Tier2 --------------------------------
(***************************************************************************)
(* Tier 2: the operations composed of tier 1 (tier2/).                     *)
(***************************************************************************)
EXTENDS Tier1

-----------------------------------------------------------------------------
(* Arithmetic of images *)

add_images(m, src0, src1, dst) == add_images_weighted(m, src0, src1, dst)
subtract_images(m, src0, src1, dst) == add_images_weighted(m, src0, src1, dst)
invert(m, src, dst) == multiply_image_and_scalar(m, src, dst)
square(m, src, dst) == power(m, src, dst)

degrees_to_radians(m, src, dst) ==
  Then([made \in {create_like(m, src, dst, "FLOAT")} |->
  multiply_image_and_scalar(made, src, Ret(made))])
radians_to_degrees(m, src, dst) ==
  Then([made \in {create_like(m, src, dst, "FLOAT")} |->
  multiply_image_and_scalar(made, src, Ret(made))])

\* Mutant of absolute_difference: clears its destination before anything is checked.
absolute_difference_clears(m, src0, src1, dst) ==
  Then([made \in {create_like(m, src0, dst, Promoted(m, src0, src1))} |->
  evaluate(Fill(made, Ret(made)), <<src0, src1>>, Ret(made))])

\* The destination has the extents of the first source, whatever the second's.
absolute_difference(m, src0, src1, dst) ==
  Then([made \in {create_like(m, src0, dst, Promoted(m, src0, src1))} |->
  evaluate(made, <<src0, src1>>, Ret(made))])
squared_difference(m, src0, src1, dst) ==
  Then([made \in {create_like(m, src0, dst, "FLOAT")} |->
  evaluate(made, <<src0, src1>>, Ret(made))])

-----------------------------------------------------------------------------
(* Values of whole images, read back to the host: nothing is returned but a  *)
(* number.                                                                   *)

AllPixels(m, src, Z(_, _, _, _), Y(_, _, _, _), X(_, _, _, _)) ==
  Then([made \in {create_one(m, src, Null, "FLOAT")} |->
  Then([z \in {IF Depth(m, src) > 1 THEN Z(made, src, Null, FALSE) ELSE Return(made, src)} |->
  Then([y \in {IF Height(z, Ret(z)) > 1 THEN Y(z, Ret(z), Null, FALSE) ELSE z} |->
  Return(ReadTo(X(y, Ret(y), Ret(made), FALSE), Ret(made), "FLOAT"), Null)])])])

maximum_of_all_pixels(m, src) ==
  AllPixels(m, src, maximum_z_projection, maximum_y_projection, maximum_x_projection)
minimum_of_all_pixels(m, src) ==
  AllPixels(m, src, minimum_z_projection, minimum_y_projection, minimum_x_projection)
sum_of_all_pixels(m, src) ==
  AllPixels(m, src, sum_z_projection, sum_y_projection, sum_x_projection)
product_of_all_pixels(m, src) ==
  AllPixels(m, src, product_z_projection, product_y_projection, product_x_projection)

Both(m, first, second) == [m EXCEPT !.ret = <<first, second>>]

\* One axis after the other is turned into z and reduced.
minimum_of_masked_pixels(m, src, by) ==
  LET \* Image and mask are the two results; both are reduced into arrays Made creates.
      Reduce(n, Made(_, _)) ==
        Then([r \in {Made(n, n.ret[1])} |->
        Then([k \in {Made(r, n.ret[2])} |->
        Both(minimum_of_masked_pixels_reduction(k, n.ret[1], n.ret[2], Ret(r), Ret(k)),
             Ret(r), Ret(k))])])
      Turned(n, Transpose(_, _, _)) ==
        Then([i \in {Transpose(n, n.ret[1], Null)} |->
        Then([k \in {Transpose(i, n.ret[2], Null)} |-> Both(k, Ret(i), Ret(k))])])
      Plane(n, p) == create_xy(n, p, Null, "UNKNOWN", FALSE)
      Vector(n, p) == create_vector(n, p, Null, Width(n, p), "UNKNOWN")
      Value(n, p) == create_one(n, p, Null, "FLOAT")
  IN Then([z \in
          {IF Depth(m, src) <= 1 THEN Both(m, src, by) ELSE Reduce(Both(m, src, by), Plane)} |->
     Then([y \in {IF Height(z, Ret(z)) <= 1 THEN z ELSE Reduce(Turned(z, transpose_yz), Vector)} |->
     Then([x \in {Reduce(Turned(y, transpose_xz), Value)} |->
     Return(ReadTo(x, Ret(x), "FLOAT"), Null)])])])

\* bounded: both limits are given; else they are measured.
clip(m, src, dst, bounded) ==
  Then([made \in {create_like(m, src, dst, "UNKNOWN")} |->
  Then([measured \in
      {IF bounded THEN made
       ELSE maximum_of_all_pixels(minimum_of_all_pixels(made, src), src)} |->
  evaluate(measured, <<src>>, Ret(made))])])

-----------------------------------------------------------------------------
(* Morphology and background *)

closing(m, src, footprint, dst) ==
  Then([temp \in {dilation(Require(m, Array(m, src).dim = Array(m, footprint).dim),
                src, footprint, Null)} |->
  erosion(temp, Ret(temp), footprint, dst)])
binary_closing(m, src, dst, radius, connectivity) ==
  Then([temp \in {binary_dilate(m, src, Null, radius, connectivity)} |->
  binary_erode(temp, Ret(temp), dst, radius, connectivity)])
grayscale_closing(m, src, dst, radius, connectivity) ==
  Then([temp \in {maximum_filter(m, src, Null, radius, connectivity)} |->
  minimum_filter(temp, Ret(temp), dst, radius, connectivity)])
closing_box(m, src, dst, radius) == grayscale_closing(m, src, dst, radius, "box")
closing_sphere(m, src, dst, radius) == grayscale_closing(m, src, dst, radius, "sphere")

opening(m, src, footprint, dst) ==
  Then([temp \in {erosion(Require(m, Array(m, src).dim = Array(m, footprint).dim),
               src, footprint, Null)} |->
  dilation(temp, Ret(temp), footprint, dst)])
binary_opening(m, src, dst, radius, connectivity) ==
  Then([temp \in {binary_erode(m, src, Null, radius, connectivity)} |->
  binary_dilate(temp, Ret(temp), dst, radius, connectivity)])
grayscale_opening(m, src, dst, radius, connectivity) ==
  Then([temp \in {minimum_filter(m, src, Null, radius, connectivity)} |->
  maximum_filter(temp, Ret(temp), dst, radius, connectivity)])
opening_box(m, src, dst, radius) == grayscale_opening(m, src, dst, radius, "box")
opening_sphere(m, src, dst, radius) == grayscale_opening(m, src, dst, radius, "sphere")

top_hat(m, src, dst, radius, connectivity) ==
  Then([temp1 \in {minimum_filter(m, src, Null, radius, connectivity)} |->
  Then([temp2 \in {maximum_filter(temp1, Ret(temp1), Null, radius, connectivity)} |->
  add_images_weighted(temp2, src, Ret(temp2), dst)])])
top_hat_box(m, src, dst, radius) == top_hat(m, src, dst, radius, "box")
top_hat_sphere(m, src, dst, radius) == top_hat(m, src, dst, radius, "sphere")

bottom_hat(m, src, dst, radius, connectivity) ==
  Then([temp1 \in {maximum_filter(m, src, Null, radius, connectivity)} |->
  Then([temp2 \in {minimum_filter(temp1, Ret(temp1), Null, radius, connectivity)} |->
  add_images_weighted(temp2, Ret(temp2), src, dst)])])
bottom_hat_box(m, src, dst, radius) == bottom_hat(m, src, dst, radius, "box")
bottom_hat_sphere(m, src, dst, radius) == bottom_hat(m, src, dst, radius, "sphere")

standard_deviation(m, src, dst, radius, connectivity) ==
  Then([temp \in {variance_filter(m, src, Null, radius, connectivity)} |->
  power(temp, Ret(temp), dst)])
standard_deviation_box(m, src, dst, radius) == standard_deviation(m, src, dst, radius, "box")
standard_deviation_sphere(m, src, dst, radius) ==
  standard_deviation(m, src, dst, radius, "sphere")

difference_of_gaussian(m, src, dst, sigma1, sigma2) ==
  Then([made \in {create_like(m, src, dst, "FLOAT")} |->
  Then([gauss1 \in {gaussian_blur(made, src, Null, sigma1)} |->
  Then([gauss2 \in {gaussian_blur(gauss1, src, Null, sigma2)} |->
  add_images_weighted(gauss2, Ret(gauss1), Ret(gauss2), Ret(made))])])])
divide_by_gaussian_background(m, src, dst, sigma) ==
  Then([temp \in {gaussian_blur(m, src, Null, sigma)} |->
  divide_images(temp, src, Ret(temp), dst)])
subtract_gaussian_background(m, src, dst, sigma) ==
  Then([temp \in {gaussian_blur(m, src, Null, sigma)} |->
  add_images_weighted(temp, src, Ret(temp), dst)])

\* detect_maxima.cpp and detect_minima.cpp compare the smoothed image with its neighbours.
Extrema(m, src, dst, radius, connectivity) ==
  Then([made \in {create_like(m, src, dst, BOOL)} |->
  Then([temp \in {mean_filter(made, src, Null, radius, connectivity)} |->
  execute(temp, Stencil, <<Ret(temp)>>, Ret(made))])])
detect_maxima(m, src, dst, radius, connectivity) == Extrema(m, src, dst, radius, connectivity)
detect_maxima_box(m, src, dst, radius) == detect_maxima(m, src, dst, radius, "box")
detect_minima(m, src, dst, radius, connectivity) == Extrema(m, src, dst, radius, connectivity)
detect_minima_box(m, src, dst, radius) == detect_minima(m, src, dst, radius, "box")

-----------------------------------------------------------------------------
(* Stacks and regions *)

\* Both sources are pasted into a cleared destination, the second behind the first.
concatenate(m, src0, src1, dst, axis) ==
  LET extents == [Shape(m, src0) EXCEPT ![axis + 1] = @ + Shape(m, src1)[axis + 1]]
  IN Then([made \in {create_dst(m, src0, dst, extents, Promoted(m, src0, src1), FALSE)} |->
  Then([cleared \in {Fill(made, Ret(made))} |->
  IF axis \notin 0..2 THEN Throw(m)
  ELSE paste(paste(cleared, src0, Ret(made)), src1, Ret(made))])])
concatenate_along_x(m, src0, src1, dst) == concatenate(m, src0, src1, dst, 0)
concatenate_along_y(m, src0, src1, dst) == concatenate(m, src0, src1, dst, 1)
concatenate_along_z(m, src0, src1, dst) == concatenate(m, src0, src1, dst, 2)

crop_border(m, src, dst, border_size) ==
  crop(m, src, dst, [i \in 1..3 |-> Max({Shape(m, src)[i] - 2 * border_size, 0})])

\* The slices are asked for with neither width nor height.
sub_stack(m, src, dst, start_z, end_z) ==
  crop(m, src, dst, <<0, 0, Max({end_z - start_z + 1, 1})>>)

\* Every slice the loop visits is copied through a flat temporary.
reduce_stack(m, src, dst, reduction_factor) ==
  LET num_slice == Depth(m, src) \div Max({reduction_factor, 1})
      extents == <<Width(m, src), Height(m, src), num_slice>>
  IN Then([made \in {create_dst(m, src, dst, extents, Type(m, src), FALSE)} |->
     Then([temp_slice \in {Create(made, <<Width(m, src), Height(m, src), 1>>, 2, Type(m, src))} |->
     IF num_slice = 0 THEN Return(temp_slice, Ret(made))
     ELSE Then([read \in {copy_slice(temp_slice, src, Ret(temp_slice))} |->
          Return(Launch(read, Gather, <<Ret(temp_slice)>>, <<Ret(made)>>, extents), Ret(made))])])])

extended_depth_of_focus_variance_projection(m, src, dst, radius, sigma) ==
  Then([variance \in {variance_filter(m, src, Null, <<radius[1], radius[2], 0>>, "sphere")} |->
  Then([temp \in {gaussian_blur(variance, Ret(variance), Null, <<sigma, sigma, 0>>)} |->
  Then([altitude \in {z_position_of_maximum_z_projection(temp, Ret(temp), Null, FALSE)} |->
  z_position_projection(altitude, src, Ret(altitude), dst)])])])

\* Slice by slice; after the loop every slice of temp has been written.
extended_depth_of_focus_sobel_projection(m, src, dst, sigma) ==
  Then([temp \in {CreateAs(m, src)} |->
  Then([temp_2d \in {Create(temp, <<Width(m, src), Height(m, src), 1>>, 2, Type(m, src))} |->
  Then([slice \in {copy_slice(temp_2d, src, Ret(temp_2d))} |->
  Then([edges \in {sobel(slice, Ret(temp_2d), Null)} |->
  Then([blurred \in {gaussian_blur(edges, Ret(edges), Null, <<sigma, sigma, 0>>)} |->
  Then([filled \in {Launch(blurred, Gather, <<Ret(blurred)>>, <<Ret(temp)>>, Shape(m, src))} |->
  Then([altitude \in {z_position_of_maximum_z_projection(filled, Ret(temp), Null, FALSE)} |->
  z_position_projection(altitude, src, Ret(altitude), dst)])])])])])])])

-----------------------------------------------------------------------------
(* Eigenvalues of the Hessian *)

\* The derivatives of a Gaussian are sampled on an impulse, then applied to the image.
hessian_gaussian_eigenvalues(m, src, small, middle, large, sigma) ==
  Then([s \in {create_like(m, src, small, "FLOAT")} |->
  Then([l \in {create_like(s, src, large, "FLOAT")} |->
  Then([c \in
      {IF Depth(m, src) > 1 THEN create_like(l, src, middle, "FLOAT")
       ELSE create_one(l, src, middle, "FLOAT")} |->
  LET extents == [i \in 1..3 |-> IF Shape(m, src)[i] > 1 THEN 2 * sigma + 1 ELSE 1]
  IN Then([dirac \in {Create(c, extents, Array(m, src).dim, "FLOAT")} |->
  Then([Gx \in {gaussian_derivative(Fill(dirac, Ret(dirac)), Ret(dirac), Null, <<sigma, sigma,
          sigma>>)} |->
  Then([Gxx \in {gaussian_derivative(Gx, Ret(Gx), Null, <<sigma, sigma, sigma>>)} |->
  Then([Gxy \in {gaussian_derivative(Gxx, Ret(Gx), Null, <<sigma, sigma, sigma>>)} |->
  Then([done \in {Launch(Gxy, Around(<<sigma, sigma, sigma>>), <<src, Ret(Gxx), Ret(Gxy)>>,
              <<Ret(s), Ret(c), Ret(l)>>, Shape(m, src))} |->
  [done EXCEPT
    !.ret = IF Depth(m, src) = 1 THEN <<Ret(l), Ret(s)>>
            ELSE <<Ret(l), Ret(c), Ret(s)>>]])])])])])])])])

large_hessian_eigenvalue(m, src, dst) ==
  Then([made \in {create_like(m, src, dst, "FLOAT")} |->
  Return(hessian_eigenvalues(made, src, Null, Null, Ret(made)), Ret(made))])
small_hessian_eigenvalue(m, src, dst) ==
  Then([made \in {create_like(m, src, dst, "FLOAT")} |->
  Return(hessian_eigenvalues(made, src, Ret(made), Null, Null), Ret(made))])

-----------------------------------------------------------------------------
(* Labels and spots *)

\* Mutant of extend_labeling_via_voronoi: the source is the first of the two images.
extend_labeling_via_source(m, src, dst) ==
  Then([made \in {create_like(m, src, dst, LABEL)} |->
  Then([flop_ \in {CreateAs(made, Ret(made))} |->
  Then([flag \in {Create(flop_, <<1, 1, 1>>, 1, "INT32")} |->
  LET Wave(n, i) ==
        LET in == IF i % 2 = 0 THEN src ELSE Ret(flop_)
            out == IF i % 2 = 0 THEN Ret(flop_) ELSE src
        IN Then([swept \in {onlyzero_overwrite_maximum(n, in, Ret(flag), out,
                                           IF i % 2 = 0 THEN "box" ELSE "sphere")} |->
        Fill(ReadTo(swept, Ret(flag), "INT32"), Ret(flag))])
  IN Then([grown \in {FoldLeft(Wave, Fill(flag, Ret(flag)), [i \in 1..m.passes |-> i - 1])} |->
  Return(CopyTo(grown, IF m.passes % 2 = 0 THEN src ELSE Ret(flop_), Ret(made)), Ret(made))])])])])

\* Labels grow, box and sphere in turn, until no pixel is overwritten any more.
extend_labeling_via_voronoi(m, src, dst) ==
  Then([made \in {create_like(m, src, dst, LABEL)} |->
  Then([flip_ \in {CreateAs(made, Ret(made))} |->
  Then([flop_ \in {CreateAs(flip_, Ret(made))} |->
  Then([flag \in {Create(copy(flop_, src, Ret(flip_)), <<1, 1, 1>>, 1, "INT32")} |->
  LET Wave(n, i) ==
        LET in == IF i % 2 = 0 THEN Ret(flip_) ELSE Ret(flop_)
            out == IF i % 2 = 0 THEN Ret(flop_) ELSE Ret(flip_)
        IN Then([swept \in {onlyzero_overwrite_maximum(n, in, Ret(flag), out,
                                           IF i % 2 = 0 THEN "box" ELSE "sphere")} |->
        Fill(ReadTo(swept, Ret(flag), "INT32"), Ret(flag))])
  IN Then([grown \in {FoldLeft(Wave, Fill(flag, Ret(flag)), [i \in 1..m.passes |-> i - 1])} |->
  Return(CopyTo(grown, IF m.passes % 2 = 0 THEN Ret(flip_) ELSE Ret(flop_), Ret(made)),
         Ret(made))])])])])])

reduce_labels_to_label_edges(m, src, dst) ==
  Then([binary \in {detect_label_edges(m, src, Null)} |->
  mask(binary, src, Ret(binary), dst)])

\* Mutant of label_spots: a destination that is used again keeps its spots.
label_spots_adds(m, src, dst) ==
  Then([made \in {create_like(m, src, dst, LABEL)} |->
  Then([ready \in {IF dst = Null THEN Fill(made, Ret(made)) ELSE made} |->
  Then([count_x \in {sum_x_projection(ready, src, Null, FALSE)} |->
  Then([count_xy \in {sum_x_projection(count_x, Ret(count_x), Null, FALSE)} |->
  execute(count_xy, Scatter, <<src, Ret(count_x), Ret(count_xy)>>, Ret(made))])])])])

label_spots(m, src, dst) ==
  Then([made \in {create_like(m, src, dst, LABEL)} |->
  Then([count_x \in {sum_x_projection(Fill(made, Ret(made)), src, Null, FALSE)} |->
  Then([count_xy \in {sum_x_projection(count_x, Ret(count_x), Null, FALSE)} |->
  execute(count_xy, Scatter, <<src, Ret(count_x), Ret(count_xy)>>, Ret(made))])])])

\* The list and the ramp of labels are FLOAT to the host and to the copy.
pointlist_to_labelled_spots(m, src, dst) ==
  LET extents == [i \in 1..3 |-> IF Height(m, src) >= i THEN m.host + 1 ELSE 1]
      rows == <<Width(m, src), Height(m, src) + 1, 1>>
  IN Then([made \in
         {IF dst # Null THEN Return(m, dst)
          ELSE Then([maxima \in {maximum_x_projection(m, src, Null, FALSE)} |->
               Create(ReadTo(maxima, Ret(maxima), "FLOAT"), extents, Height(m, src), LABEL)])} |->
     Then([temp1 \in {Create(Fill(made, Ret(made)), rows, 2, "FLOAT")} |->
     Then([temp2 \in {Create(temp1, rows, 2, "FLOAT")} |->
     Then([ramp \in
             {add_image_and_scalar(set_ramp_x(temp2, Ret(temp1)), Ret(temp1), Ret(temp2))} |->
     Then([points \in {CopyRegion(ramp, src, Ret(temp2), <<Width(m, src), Height(m, src), 1>>)} |->
     write_values_to_positions(points, Ret(temp2), Ret(made))])])])])])

-----------------------------------------------------------------------------
(* Matrices of neighbours *)

generate_proximal_neighbors_matrix(m, src_matrix, dst_matrix) ==
  Then([made \in {create_like(m, src_matrix, dst_matrix, "UINT8")} |->
  Then([above \in {greater_or_equal_constant(made, src_matrix, Null)} |->
  Then([below \in {smaller_or_equal_constant(above, src_matrix, Null)} |->
  Then([both \in {binary_and(below, Ret(above), Ret(below), Ret(made))} |->
  Then([diagonal \in {set_where_x_equals_y(both, Ret(made))} |->
  set_column(set_row(diagonal, Ret(made)), Ret(made))])])])])])

count_touching_neighbors(m, touch_matrix, dst, ignore_background) ==
  Then([made \in {create_vector(m, touch_matrix, dst, Width(m, touch_matrix), "UINT32")} |->
  Then([bin \in {greater_constant(made, touch_matrix, Null)} |->
  Then([bare \in
      {IF ignore_background
       THEN set_where_x_equals_y(set_column(set_row(bin, Ret(bin)), Ret(bin)), Ret(bin))
       ELSE bin} |->
  sum_y_projection(bare, Ret(bin), Ret(made), FALSE)])])])

symmetric_maximum_matrix(m, src_matrix, dst_matrix) ==
  Then([temp \in {transpose_xy(m, src_matrix, Null)} |->
  maximum_images(temp, src_matrix, Ret(temp), dst_matrix)])
symmetric_minimum_matrix(m, src_matrix, dst_matrix) ==
  Then([temp \in {transpose_xy(m, src_matrix, Null)} |->
  minimum_images(temp, src_matrix, Ret(temp), dst_matrix)])
symmetric_mean_matrix(m, src_matrix, dst_matrix) ==
  Then([temp \in {transpose_xy(m, src_matrix, Null)} |->
  Then([made \in {create_like(temp, src_matrix, dst_matrix, "UNKNOWN")} |->
  evaluate(made, <<src_matrix, Ret(temp)>>, Ret(made))])])

generate_partial_touching_area_matrix_within_range(m, src_matrix, dst_matrix) ==
  Then([made \in {create_like(m, src_matrix, dst_matrix, "UNKNOWN")} |->
  Then([sup \in {greater_constant(made, src_matrix, Null)} |->
  Then([inf \in {smaller_constant(sup, src_matrix, Null)} |->
  binary_and(inf, Ret(sup), Ret(inf), Ret(made))])])])
generate_touch_portion_within_range_neighbors_matrix(m, src_matrix, dst_matrix) ==
  generate_partial_touching_area_matrix_within_range(m, src_matrix, dst_matrix)

=============================================================================
