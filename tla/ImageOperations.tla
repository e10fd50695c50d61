-------------------------- MODULE ImageOperations ---------------------------
(***************************************************************************)
(* The image operations as the actions of one specification: a disjunct    *)
(* for each, with the operands and parameters it is called with.           *)
(***************************************************************************)
EXTENDS ImageCalls

-----------------------------------------------------------------------------
(* Tier 1 *)

\* math_images_ops.cpp, mask.cpp, mask_label.cpp
Arithmetic ==
  \/ Two("add_images_weighted", add_images_weighted)
  \/ Two("power_images", power_images)
  \/ Two("maximum_images", maximum_images)
  \/ Two("minimum_images", minimum_images)
  \/ Two("modulo_images", modulo_images)
  \/ Two("multiply_images", multiply_images)
  \/ Two("divide_images", divide_images)
  \/ Two("greater", greater)
  \/ Two("greater_or_equal", greater_or_equal)
  \/ Two("smaller", smaller)
  \/ Two("smaller_or_equal", smaller_or_equal)
  \/ Two("equal", equal)
  \/ Two("not_equal", not_equal)
  \/ Two("binary_and", binary_and)
  \/ Two("binary_or", binary_or)
  \/ Two("binary_xor", binary_xor)
  \/ Two("binary_subtract", binary_subtract)
  \/ Two("mask", mask)
  \/ Two("mask_label", mask_label)

\* math_binary_ops.cpp
WithNumber ==
  \/ One("power", power)
  \/ One("root", root)
  \/ One("maximum_image_and_scalar", maximum_image_and_scalar)
  \/ One("minimum_image_and_scalar", minimum_image_and_scalar)
  \/ One("add_image_and_scalar", add_image_and_scalar)
  \/ One("subtract_scalar_from_image", subtract_scalar_from_image)
  \/ One("subtract_image_from_scalar", subtract_image_from_scalar)
  \/ One("divide_image_by_scalar", divide_image_by_scalar)
  \/ One("divide_scalar_by_image", divide_scalar_by_image)
  \/ One("multiply_image_and_scalar", multiply_image_and_scalar)
  \/ One("greater_constant", greater_constant)
  \/ One("greater_or_equal_constant", greater_or_equal_constant)
  \/ One("smaller_constant", smaller_constant)
  \/ One("smaller_or_equal_constant", smaller_or_equal_constant)
  \/ One("equal_constant", equal_constant)
  \/ One("not_equal_constant", not_equal_constant)

\* math_unary_ops.cpp, math_trigonometry_ops.cpp and their like
OfPixels ==
  \/ One("absolute", absolute)
  \/ One("cubic_root", cubic_root)
  \/ One("square_root", square_root)
  \/ One("exponential", exponential)
  \/ One("exponential2", exponential2)
  \/ One("exponential10", exponential10)
  \/ One("logarithm", logarithm)
  \/ One("logarithm2", logarithm2)
  \/ One("logarithm10", logarithm10)
  \/ One("reciprocal", reciprocal)
  \/ One("ceil", ceil)
  \/ One("floor", floor)
  \/ One("round", round)
  \/ One("truncate", truncate)
  \/ One("binary_not", binary_not)
  \/ One("sin", sin)
  \/ One("cos", cos)
  \/ One("tan", tan)
  \/ One("asin", asin)
  \/ One("acos", acos)
  \/ One("atan", atan)
  \/ One("sinh", sinh)
  \/ One("cosh", cosh)
  \/ One("tanh", tanh)
  \/ One("nan_to_num", nan_to_num)
  \/ One("undefined_to_zero", undefined_to_zero)
  \/ One("replace_value", replace_value)
  \/ One("replace_intensity", replace_intensity)
  \/ One("multiply_image_and_position", multiply_image_and_position)
  \/ One("set_nonzero_pixels_to_pixelindex", set_nonzero_pixels_to_pixelindex)
  \/ One("sign", sign)

\* Copies, regions and permutations of the axes.
Moved ==
  \/ One("copy", copy)
  \/ One("copy_slice", copy_slice)
  \/ One("copy_horizontal_slice", copy_horizontal_slice)
  \/ One("copy_vertical_slice", copy_vertical_slice)
  \/ One("paste", paste)
  \/ One("circular_shift", circular_shift)
  \/ One("flip", flip)
  \/ One("transpose_xy", transpose_xy)
  \/ One("transpose_xz", transpose_xz)
  \/ One("transpose_yz", transpose_yz)
  \/ Resized("crop", crop)
  \/ Resized("pad", pad)
  \/ Resized("unpad", unpad)
  \/ Walked("gather", gather)
  \/ Walked("range", range)
  \/ Walked("scatter", scatter)

Neighbourhoods ==
  \/ Near("binary_edge_detection", binary_edge_detection, {1})
  \/ Near("detect_label_edges", detect_label_edges, {1})
  \/ Near("gradient_x", gradient_x, {1})
  \/ Near("sobel", sobel, {1})
  \/ Near("laplace_box", laplace_box, {1})
  \/ Near("laplace_diamond", laplace_diamond, {1})
  \/ Near("binary_supinf", binary_supinf, {1})
  \/ Near("binary_infsup", binary_infsup, {1})
  \/ Near("dilate_box", dilate_box, {1})
  \/ Near("dilate_sphere", dilate_sphere, {1})
  \/ Near("erode_box", erode_box, {1})
  \/ Near("erode_sphere", erode_sphere, {1})
  \/ Near("gradient_y", gradient_y, {0})
  \/ Near("gradient_z", gradient_z, {0})
  \/ Two("convolve", convolve)
  \/ Two("local_cross_correlation", local_cross_correlation)
  \/ Two("dilation", dilation)
  \/ Two("erosion", erosion)
  \/ \E d \in Destinations, c \in Boxes :
       Reaching("laplace", <<Source>>, d, <<c>>, {1}, laplace(Now, Source, d, c))
  \/ \E d \in Destinations, r \in Radii :
       Reaching("kuwahara_filter", <<Source>>, d, <<r>>, {r},
                kuwahara_filter(Now, Source, d, r))

Filters ==
  \/ Radial("maximum_box", maximum_box, Once)
  \/ Radial("maximum_sphere", maximum_sphere, Once)
  \/ Radial("minimum_box", minimum_box, Once)
  \/ Radial("minimum_sphere", minimum_sphere, Once)
  \/ Radial("mean_box", mean_box, Once)
  \/ Radial("mean_sphere", mean_sphere, Once)
  \/ Radial("median_box", median_box, Once)
  \/ Radial("median_sphere", median_sphere, Once)
  \/ Radial("mode_box", mode_box, Once)
  \/ Radial("mode_sphere", mode_sphere, Once)
  \/ Radial("variance_box", variance_box, Once)
  \/ Radial("variance_sphere", variance_sphere, Once)
  \/ Radial("gaussian_blur", gaussian_blur, Once)
  \/ Radial("gaussian_derivative", gaussian_derivative, Once)
  \/ Shaped("binary_dilate", binary_dilate, Once)
  \/ Shaped("binary_erode", binary_erode, Once)
  \/ Shaped("maximum_filter", maximum_filter, Once)
  \/ Shaped("minimum_filter", minimum_filter, Once)
  \/ Shaped("mean_filter", mean_filter, Once)
  \/ Shaped("grayscale_dilate", grayscale_dilate, Once)
  \/ Shaped("grayscale_erode", grayscale_erode, Once)
  \/ Shaped("median", median, Once)
  \/ Shaped("mode", mode, Once)
  \/ Shaped("variance_filter", variance_filter, Once)

\* projections.cpp
Projections ==
  \/ Projected("std_x_projection", std_x_projection)
  \/ Projected("std_y_projection", std_y_projection)
  \/ Projected("std_z_projection", std_z_projection)
  \/ Projected("variance_x_projection", variance_x_projection)
  \/ Projected("variance_y_projection", variance_y_projection)
  \/ Projected("variance_z_projection", variance_z_projection)
  \/ Projected("maximum_x_projection", maximum_x_projection)
  \/ Projected("maximum_y_projection", maximum_y_projection)
  \/ Projected("maximum_z_projection", maximum_z_projection)
  \/ Projected("minimum_x_projection", minimum_x_projection)
  \/ Projected("minimum_y_projection", minimum_y_projection)
  \/ Projected("minimum_z_projection", minimum_z_projection)
  \/ Projected("mean_x_projection", mean_x_projection)
  \/ Projected("mean_y_projection", mean_y_projection)
  \/ Projected("mean_z_projection", mean_z_projection)
  \/ Projected("sum_x_projection", sum_x_projection)
  \/ Projected("sum_y_projection", sum_y_projection)
  \/ Projected("sum_z_projection", sum_z_projection)
  \/ Projected("product_x_projection", product_x_projection)
  \/ Projected("product_y_projection", product_y_projection)
  \/ Projected("product_z_projection", product_z_projection)
  \/ Projected("x_position_of_maximum_x_projection", x_position_of_maximum_x_projection)
  \/ Projected("x_position_of_minimum_x_projection", x_position_of_minimum_x_projection)
  \/ Projected("y_position_of_maximum_y_projection", y_position_of_maximum_y_projection)
  \/ Projected("y_position_of_minimum_y_projection", y_position_of_minimum_y_projection)
  \/ Projected("z_position_of_maximum_z_projection", z_position_of_maximum_z_projection)
  \/ Projected("z_position_of_minimum_z_projection", z_position_of_minimum_z_projection)
  \/ SameExtents /\ Two("z_position_projection", z_position_projection)
  \/ \E d \in Destinations :
       /\ SameExtents
       /\ Call("minimum_of_masked_pixels_reduction", <<Source, Operand>>, d, <<>>,
               minimum_of_masked_pixels_reduction(Now, Source, Operand, d, Null))

\* accumulate.cpp, sum_reduction_x.cpp, block_enumerate.cpp
Accumulated ==
  \/ \E d \in Destinations, k \in BOOLEAN, axis \in 0..3 :
       Call("cumulative_sum", <<Source>>, d, <<k, axis>>,
            cumulative_sum(Now, Source, d, axis, k))
  \/ \E d \in Destinations, k \in BOOLEAN, axis \in 0..3 :
       Call("cumulative_min", <<Source>>, d, <<k, axis>>,
            cumulative_min(Now, Source, d, axis, k))
  \/ \E d \in Destinations, k \in BOOLEAN, axis \in 0..3 :
       Call("cumulative_max", <<Source>>, d, <<k, axis>>,
            cumulative_max(Now, Source, d, axis, k))
  \/ \E d \in Destinations, k \in BOOLEAN, axis \in 0..3 :
       Call("cumulative_product", <<Source>>, d, <<k, axis>>,
            cumulative_product(Now, Source, d, axis, k))
  \/ \E d \in Destinations, b \in 1..2 :
       Call("sum_reduction_x", <<Source>>, d, <<b>>, sum_reduction_x(Now, Source, d, b))
  \/ \E d \in Destinations, b \in 1..2 :
       /\ Width(machine, Operand) * b >= Width(machine, Source)
       /\ [Shape(machine, Operand) EXCEPT ![1] = 1] = [Shape(machine, Source) EXCEPT ![1] = 1]
       /\ Call("block_enumerate", <<Source, Operand>>, d, <<b>>,
               block_enumerate(Now, Source, Operand, d, b))

\* One sweep of a wave front; the caller's own array is the flag it raises.
Waves ==
  \/ \E d \in Destinations :
       /\ d # Own
       /\ Call("nonzero_maximum_box", <<Source>>, d, <<>>,
               nonzero_maximum_box(Now, Source, Own, d))
  \/ \E d \in Destinations :
       /\ d # Own
       /\ Call("nonzero_maximum_diamond", <<Source>>, d, <<>>,
               nonzero_maximum_diamond(Now, Source, Own, d))
  \/ \E d \in Destinations :
       /\ d # Own
       /\ Call("nonzero_minimum_box", <<Source>>, d, <<>>,
               nonzero_minimum_box(Now, Source, Own, d))
  \/ \E d \in Destinations :
       /\ d # Own
       /\ Call("nonzero_minimum_diamond", <<Source>>, d, <<>>,
               nonzero_minimum_diamond(Now, Source, Own, d))
  \/ \E d \in Destinations :
       /\ d # Own
       /\ Call("onlyzero_overwrite_maximum_box", <<Source>>, d, <<>>,
               onlyzero_overwrite_maximum_box(Now, Source, Own, d))
  \/ \E d \in Destinations :
       /\ d # Own
       /\ Call("onlyzero_overwrite_maximum_diamond", <<Source>>, d, <<>>,
               onlyzero_overwrite_maximum_diamond(Now, Source, Own, d))
  \/ \E d \in Destinations, c \in Boxes :
       /\ d # Own
       /\ Call("nonzero_maximum", <<Source>>, d, <<c>>,
               nonzero_maximum(Now, Source, Own, d, c))
  \/ \E d \in Destinations, c \in Boxes :
       /\ d # Own
       /\ Call("nonzero_minimum", <<Source>>, d, <<c>>,
               nonzero_minimum(Now, Source, Own, d, c))
  \/ \E d \in Destinations, c \in Boxes :
       /\ d # Own
       /\ Call("onlyzero_overwrite_maximum", <<Source>>, d, <<c>>,
               onlyzero_overwrite_maximum(Now, Source, Own, d, c))

Tables ==
  \/ Two("replace_values", replace_values)
  \/ Two("replace_intensities", replace_intensities)
  \/ Two("read_values_from_positions", read_values_from_positions)
  \/ Two("multiply_matrix", multiply_matrix)
  \/ SameExtents /\ Two("generate_distance_matrix", generate_distance_matrix)
  \/ Measured("write_values_to_positions", write_values_to_positions)

\* distance_neighbour_statistics.cpp, neighbor_computation.cpp
OfMatrices ==
  \/ Square /\ SameExtents /\ Two("minimum_distance_touching_neighbors",
                               minimum_distance_touching_neighbors)
  \/ Square /\ SameExtents /\ Two("maximum_distance_touching_neighbors",
                               maximum_distance_touching_neighbors)
  \/ Square /\ SameExtents /\ Two("mean_distance_touching_neighbors",
                               mean_distance_touching_neighbors)
  \/ Square /\ SameExtents /\ Two("average_distance_touching_neighbors",
                               average_distance_touching_neighbors)
  \/ Square /\ One("mean_distance_n_nearest_neighbors",
                mean_distance_n_nearest_neighbors)
  \/ Square /\ One("maximum_distance_n_nearest_neighbors",
                maximum_distance_n_nearest_neighbors)
  \/ Square /\ One("mean_distance_n_farthest_neighbors",
                mean_distance_n_farthest_neighbors)
  \/ Square /\ One("average_distance_of_n_nearest_distances",
                average_distance_of_n_nearest_distances)
  \/ Square /\ One("maximum_distance_of_n_shortest_distances",
                maximum_distance_of_n_shortest_distances)
  \/ Square /\ One("average_distance_of_n_far_off_distances",
                average_distance_of_n_far_off_distances)
  \/ Square /\ Columns /\ Turned("mean_of_touching_neighbors",
                              mean_of_touching_neighbors)
  \/ Square /\ Columns /\ Turned("median_of_touching_neighbors",
                              median_of_touching_neighbors)
  \/ Square /\ Columns /\ Turned("minimum_of_touching_neighbors",
                              minimum_of_touching_neighbors)
  \/ Square /\ Columns /\ Turned("maximum_of_touching_neighbors",
                              maximum_of_touching_neighbors)
  \/ Square /\ Columns /\ Turned("standard_deviation_of_touching_neighbors",
                              standard_deviation_of_touching_neighbors)
  \/ Square /\ Columns /\ Turned("mode_of_touching_neighbors",
                              mode_of_touching_neighbors)

\* set_operations.cpp
SetInPlace ==
  \/ InPlace("set", set)
  \/ InPlace("set_ramp_x", set_ramp_x)
  \/ InPlace("set_ramp_y", set_ramp_y)
  \/ InPlace("set_ramp_z", set_ramp_z)
  \/ InPlace("set_row", set_row)
  \/ InPlace("set_column", set_column)
  \/ InPlace("set_plane", set_plane)
  \/ InPlace("set_image_borders", set_image_borders)
  \/ InPlace("set_where_x_equals_y", set_where_x_equals_y)
  \/ InPlace("set_where_x_greater_than_y", set_where_x_greater_than_y)
  \/ InPlace("set_where_x_smaller_than_y", set_where_x_smaller_than_y)

-----------------------------------------------------------------------------
(* Tier 2 *)

Combined ==
  \/ One("invert", invert)
  \/ One("square", square)
  \/ One("degrees_to_radians", degrees_to_radians)
  \/ One("radians_to_degrees", radians_to_degrees)
  \/ Two("add_images", add_images)
  \/ Two("subtract_images", subtract_images)
  \/ Two("absolute_difference", absolute_difference)
  \/ Two("squared_difference", squared_difference)
  \/ Two("concatenate_along_x", concatenate_along_x)
  \/ Two("concatenate_along_y", concatenate_along_y)
  \/ Two("concatenate_along_z", concatenate_along_z)
  \/ \E d \in Destinations, b \in BOOLEAN :
       Call("clip", <<Source>>, d, <<b>>, clip(Now, Source, d, b))

Numbers ==
  \/ Number("maximum_of_all_pixels", maximum_of_all_pixels)
  \/ Number("minimum_of_all_pixels", minimum_of_all_pixels)
  \/ Number("sum_of_all_pixels", sum_of_all_pixels)
  \/ Number("product_of_all_pixels", product_of_all_pixels)
  \/ SameExtents /\ NumberOfTwo("minimum_of_masked_pixels", minimum_of_masked_pixels)

Morphology ==
  \/ Two("closing", closing)
  \/ Two("opening", opening)
  \/ Shaped("binary_closing", binary_closing, Twice)
  \/ Shaped("grayscale_closing", grayscale_closing, Twice)
  \/ Shaped("binary_opening", binary_opening, Twice)
  \/ Shaped("grayscale_opening", grayscale_opening, Twice)
  \/ Shaped("top_hat", top_hat, Twice)
  \/ Shaped("bottom_hat", bottom_hat, Twice)
  \/ Radial("closing_box", closing_box, Twice)
  \/ Radial("closing_sphere", closing_sphere, Twice)
  \/ Radial("opening_box", opening_box, Twice)
  \/ Radial("opening_sphere", opening_sphere, Twice)
  \/ Radial("top_hat_box", top_hat_box, Twice)
  \/ Radial("top_hat_sphere", top_hat_sphere, Twice)
  \/ Radial("bottom_hat_box", bottom_hat_box, Twice)
  \/ Radial("bottom_hat_sphere", bottom_hat_sphere, Twice)
  \/ Shaped("standard_deviation", standard_deviation, Once)
  \/ Radial("standard_deviation_box", standard_deviation_box, Once)
  \/ Radial("standard_deviation_sphere", standard_deviation_sphere, Once)
  \/ Radial("divide_by_gaussian_background", divide_by_gaussian_background, Once)
  \/ Radial("subtract_gaussian_background", subtract_gaussian_background, Once)
  \/ Shaped("detect_maxima", detect_maxima, Beyond)
  \/ Shaped("detect_minima", detect_minima, Beyond)
  \/ Radial("detect_maxima_box", detect_maxima_box, Beyond)
  \/ Radial("detect_minima_box", detect_minima_box, Beyond)
  \/ Near("large_hessian_eigenvalue", large_hessian_eigenvalue, {1})
  \/ Near("small_hessian_eigenvalue", small_hessian_eigenvalue, {1})
  \/ Near("reduce_labels_to_label_edges", reduce_labels_to_label_edges, {1})
  \/ \E d \in Destinations, r \in Radii, s \in Radii :
       Reaching("difference_of_gaussian", <<Source>>, d, <<r, s>>, {Max({r, s})},
                difference_of_gaussian(Now, Source, d, <<r, r, r>>, <<s, s, s>>))
  \/ \E d \in Destinations :
       Reaching("hessian_eigenvalues", <<Source>>, d, <<>>, {1},
                hessian_eigenvalues(Now, Source, Null, Null, d))
  \/ \E d \in Destinations, r \in Radii :
       Call("hessian_gaussian_eigenvalues", <<Source>>, d, <<r>>,
            hessian_gaussian_eigenvalues(Now, Source, Null, Null, d, r))

Stacks ==
  \/ \E d \in Destinations, b \in 0..1 :
       Call("crop_border", <<Source>>, d, <<b>>, crop_border(Now, Source, d, b))
  \/ \E d \in Destinations, z \in 0..1 :
       Call("sub_stack", <<Source>>, d, <<z>>, sub_stack(Now, Source, d, 0, z))
  \/ \E d \in Destinations, f \in 0..3 :
       Call("reduce_stack", <<Source>>, d, <<f>>, reduce_stack(Now, Source, d, f))
  \/ \E d \in Destinations, r \in Triples, s \in Radii :
       Reaching("extended_depth_of_focus_variance_projection", <<Source>>, d, <<r, s>>, {r[1] + s},
                extended_depth_of_focus_variance_projection(Now, Source, d, r, s))
  \/ \E d \in Destinations, s \in Radii :
       Reaching("extended_depth_of_focus_sobel_projection", <<Source>>, d, <<s>>, {1 + s},
                extended_depth_of_focus_sobel_projection(Now, Source, d, s))

Spots ==
  \/ Measured("extend_labeling_via_voronoi", extend_labeling_via_voronoi)
  \/ Measured("label_spots", label_spots)
  \/ List /\ Measured("pointlist_to_labelled_spots", pointlist_to_labelled_spots)

NeighborMatrices ==
  \/ Square /\ One("generate_proximal_neighbors_matrix",
                generate_proximal_neighbors_matrix)
  \/ Square /\ One("symmetric_maximum_matrix",
                symmetric_maximum_matrix)
  \/ Square /\ One("symmetric_minimum_matrix",
                symmetric_minimum_matrix)
  \/ Square /\ One("symmetric_mean_matrix",
                symmetric_mean_matrix)
  \/ Square /\ One("generate_partial_touching_area_matrix_within_range",
                generate_partial_touching_area_matrix_within_range)
  \/ Square /\ One("generate_touch_portion_within_range_neighbors_matrix",
                generate_touch_portion_within_range_neighbors_matrix)
  \/ \E d \in Destinations, b \in BOOLEAN :
       /\ Square
       /\ Call("count_touching_neighbors", <<Source>>, d, <<b>>,
               count_touching_neighbors(Now, Source, d, b))

-----------------------------------------------------------------------------
(* Tier 3 and the statistics of labels *)

MadeUp ==
  \/ \E v \in Values :
       /\ call = NotCalled
       /\ Call("artificial_tissue", <<>>, Null, <<v>>,
               artificial_tissue(Found(1, v), Shape(machine, Source), 4))
  \/ \E d \in Destinations, r \in Radii, b \in BOOLEAN :
       Reaching("clahe", <<Source>>, d, <<r, b>>, {r}, clahe(Now, Source, d, r, b))
  \/ \E d \in Destinations, r \in Radii, s \in Radii :
       Call("sato_filter", <<Source>>, d, <<r, s>>, sato_filter(Now, Source, d, <<r, s>>))
  \/ \E d \in Destinations, r \in Radii :
       Call("tubeness", <<Source>>, d, <<r>>, tubeness(Now, Source, d, r))
  \/ \E d \in Destinations, n \in 0..2, s \in 0..2 :
       Call("morphological_chan_vese", IF n = 0 THEN <<>> ELSE <<Source>>, d, <<n, s>>,
            morphological_chan_vese(Now, Source, d, n, s))
  \/ One("gamma_correction", gamma_correction)

Positions ==
  \/ Number("bounding_box", bounding_box)
  \/ Number("center_of_mass", center_of_mass)
  \/ Number("mean_of_all_pixels", mean_of_all_pixels)
  \/ Number("maximum_position", maximum_position)
  \/ Number("minimum_position", minimum_position)
  \/ SameExtents /\ NumberOfTwo("jaccard_index", jaccard_index)
  \/ \E d \in Destinations, n \in 1..3, b \in BOOLEAN :
       Call("histogram", <<Source>>, d, <<n, b>>, histogram(Now, Source, d, n, b))

LabelMatrices ==
  \/ Measured("generate_touch_matrix", generate_touch_matrix)
  \/ Measured("generate_touching_area_matrix", generate_touching_area_matrix)
  \/ Measured("generate_touch_count_matrix", generate_touch_count_matrix)
  \/ Measured("flag_existing_labels", flag_existing_labels)
  \/ Measured("labelled_spots_to_pointlist", labelled_spots_to_pointlist)
  \/ SameExtents /\ MeasuredTwo("generate_binary_overlap_matrix", generate_binary_overlap_matrix)
  \/ SameExtents /\ MeasuredTwo("read_map_values", read_map_values)
  \/ SameExtents /\ MeasuredTwo("read_intensities_from_map", read_intensities_from_map)

RemovedLabels ==
  \/ Two("remove_labels", remove_labels)
  \/ Two("exclude_labels", exclude_labels)
  \/ \E d \in Destinations, v \in Values, e \in Axes :
       Call("remove_labels_on_edges", <<Source>>, d, <<v, e>>,
            remove_labels_on_edges(Found(1, v), Source, d, e))
  \/ \E d \in Destinations, v \in Values, e \in Axes :
       Call("exclude_labels_on_edges", <<Source>>, d, <<v, e>>,
            exclude_labels_on_edges(Found(1, v), Source, d, e))

\* A null image or label map stands for the other.
LabelStatistics ==
  \/ \E v \in Values, l \in {Null, Source}, i \in {Null, Operand}, b \in BOOLEAN :
       /\ call = NotCalled /\ SameExtents
       /\ Call("labels_statistics", <<l, i>>, Null, <<v, b>>,
               labels_statistics(Found(1, v), l, i, b))
  \/ \E v \in Values :
       /\ call = NotCalled /\ SameExtents
       /\ Call("statistics_of_labelled_pixels", <<Operand, Source>>, Null, <<v>>,
               statistics_of_labelled_pixels(Found(1, v), Operand, Source))
  \/ \E v \in Values :
       /\ call = NotCalled /\ SameExtents
       /\ Call("statistics_of_background_and_labelled_pixels", <<Operand, Source>>, Null, <<v>>,
               statistics_of_background_and_labelled_pixels(Found(1, v), Operand, Source))

-----------------------------------------------------------------------------
(* Tier 4 *)

Thresholds ==
  \/ Number("label_bounding_box", label_bounding_box)
  \/ Number("variance_of_all_pixels", variance_of_all_pixels)
  \/ Number("standard_deviation_of_all_pixels", standard_deviation_of_all_pixels)
  \/ Number("percentile", percentile)
  \/ SameExtents /\ NumberOfTwo("mean_squared_error", mean_squared_error)
  \/ One("threshold_mean", threshold_mean)
  \/ One("threshold_otsu", threshold_otsu)
  \/ One("threshold_yen", threshold_yen)
  \/ One("threshold_triangle", threshold_triangle)
  \/ One("threshold_isodata", threshold_isodata)
  \/ \E d \in Destinations, b \in BOOLEAN :
       Call("threshold_li", <<Source>>, d, <<b>>, threshold_li(Now, Source, d, b))

SelectedByMap ==
  \/ Two("remove_labels_with_map_values_out_of_range", remove_labels_with_map_values_out_of_range)
  \/ Two("remove_labels_with_map_values_within_range", remove_labels_with_map_values_within_range)
  \/ Turned("exclude_labels_with_map_values_out_of_range",
            exclude_labels_with_map_values_out_of_range)
  \/ Turned("exclude_labels_with_map_values_within_range",
            exclude_labels_with_map_values_within_range)

Relabelled ==
  \/ \E d \in Destinations, v \in Values, b \in BOOLEAN :
       Call("centroids_of_labels", <<Source>>, d, <<v, b>>,
            centroids_of_labels(Found(1, v), Source, d, b))
  \/ \E d \in Destinations, v \in Values, b \in {2, 4096} :
       Call("relabel_sequential", <<Source>>, d, <<v, b>>,
            relabel_sequential(Found(1, v), Source, d, b))
  \/ Measured("spots_to_pointlist", spots_to_pointlist)
  \/ Measured("generate_partial_touching_area_matrix", generate_partial_touching_area_matrix)
  \/ Measured("generate_touch_portion_matrix", generate_touch_portion_matrix)

Maps ==
  \/ \E d \in Destinations, v \in Values, b \in BOOLEAN :
       Call("parametric_map", <<Source>>, d, <<v, b>>,
            parametric_map(Found(1, v), Source, d, b))
  \/ Measured("pixel_count_map", pixel_count_map)
  \/ Measured("label_pixel_count_map", label_pixel_count_map)
  \/ Measured("extension_ratio_map", extension_ratio_map)
  \/ Measured("mean_extension_map", mean_extension_map)
  \/ Measured("maximum_extension_map", maximum_extension_map)
  \/ Measured("touching_neighbor_count_map", touching_neighbor_count_map)
  \/ SameExtents /\ MeasuredTwo("mean_intensity_map", mean_intensity_map)
  \/ SameExtents /\ MeasuredTwo("label_mean_intensity_map", label_mean_intensity_map)
  \/ SameExtents /\ MeasuredTwo("minimum_intensity_map", minimum_intensity_map)
  \/ SameExtents /\ MeasuredTwo("maximum_intensity_map", maximum_intensity_map)
  \/ SameExtents /\ MeasuredTwo("standard_deviation_intensity_map",
                                standard_deviation_intensity_map)

NeighborMaps ==
  \/ SameExtents /\ OfNeighborhood("mean_of_touching_neighbors_map",
                                     mean_of_touching_neighbors_map)
  \/ SameExtents /\ OfNeighborhood("minimum_of_touching_neighbors_map",
                                     minimum_of_touching_neighbors_map)
  \/ SameExtents /\ OfNeighborhood("maximum_of_touching_neighbors_map",
                                     maximum_of_touching_neighbors_map)
  \/ SameExtents /\ OfNeighborhood("standard_deviation_of_touching_neighbors_map",
                                     standard_deviation_of_touching_neighbors_map)
  \/ SameExtents /\ OfNeighborhood("mode_of_touching_neighbors_map",
                                     mode_of_touching_neighbors_map)
  \/ SameExtents /\ OfNeighborhood("median_of_touching_neighbors_map",
                                     median_of_touching_neighbors_map)

-----------------------------------------------------------------------------
(* Tiers 5 and 6 *)

Labelings ==
  \/ NumberOfTwo("array_equal", array_equal)
  \/ SameExtents /\ MeasuredTwo("combine_labels", combine_labels)
  \/ \E d \in Destinations, p \in Passes, v \in Values, c \in Boxes :
       Call("connected_component_labeling", <<Source>>, d, <<p, v, c>>,
            connected_component_labeling(Found(p, v), Source, d, c))
  \/ \E d \in Destinations, p \in Passes, v \in Values, c \in Boxes :
       Call("connected_components_labeling", <<Source>>, d, <<p, v, c>>,
            connected_components_labeling(Found(p, v), Source, d, c))
  \/ Measured("filter_label_by_size", filter_label_by_size)
  \/ Measured("exclude_labels_outside_size_range", exclude_labels_outside_size_range)
  \/ Measured("merge_touching_labels", merge_touching_labels)
  \/ Measured("proximal_neighbor_count", proximal_neighbor_count)
  \/ Measured("reduce_labels_to_centroids", reduce_labels_to_centroids)
  \/ Measured("standard_deviation_partial_touching_area_matrix",
              standard_deviation_partial_touching_area_matrix)
  \/ Measured("standard_deviation_touch_portion", standard_deviation_touch_portion)
  \/ \E d \in Destinations, low \in BOOLEAN, high \in BOOLEAN :
       Call("normalize", <<Source>>, d, <<low, high>>, normalize(Now, Source, d, low, high))

Outlines ==
  \/ Measured("voronoi_labeling", voronoi_labeling)
  \/ Measured("proximal_neighbor_count_map", proximal_neighbor_count_map)
  \/ Measured("remove_small_labels", remove_small_labels)
  \/ Measured("remove_large_labels", remove_large_labels)
  \/ Measured("exclude_small_labels", exclude_small_labels)
  \/ Measured("exclude_large_labels", exclude_large_labels)
  \/ SameExtents /\ MeasuredTwo("masked_voronoi_labeling", masked_voronoi_labeling)
  \/ Grown("dilate_labels", dilate_labels, UpTo)
  \/ Grown("gauss_otsu_labeling", gauss_otsu_labeling, Everywhere)
  \/ \E d \in Destinations, p \in Passes, v \in Values, r \in Radii, b \in BOOLEAN :
       Reaching("erode_labels", <<Source>>, d, <<p, v, r, b>>, IF b THEN Anywhere ELSE {r},
                erode_labels(Found(p, v), Source, d, r, b))

-----------------------------------------------------------------------------
(* Tiers 7 and 8 *)

NeighborMeasures ==
  \/ \E v \in Values, near \in 0..1, k \in 0..1 :
       /\ call = NotCalled
       /\ Call("labels_neighbors_statistics", <<Source>>, Null, <<v, near, k>>,
               labels_neighbors_statistics(Found(1, v), Source, near, k, <<1>>))
  \/ \E v \in Values, near \in 0..1, k \in 0..1 :
       /\ call = NotCalled
       /\ Call("statistics_of_labelled_neighbors", <<Source>>, Null, <<v, near, k>>,
               statistics_of_labelled_neighbors(Found(1, v), Source, near, k, <<1>>))

LabelShapes ==
  \/ Grown("opening_labels", opening_labels, UpToTwice)
  \/ Grown("closing_labels", closing_labels, UpToTwice)
  \/ Grown("erode_connected_labels", erode_connected_labels, Once)
  \/ Grown("smooth_labels", smooth_labels, Everywhere)
  \/ Grown("smooth_connected_labels", smooth_connected_labels, UpToTwice)
  \/ \E d \in Destinations, p \in Passes, v \in Values, n \in 0..2, s \in 0..1 :
       Call("eroded_otsu_labeling", <<Source>>, d, <<p, v, n, s>>,
            eroded_otsu_labeling(Found(p, v), Source, d, n, s))
  \/ \E d \in Destinations, p \in Passes, v \in Values, s \in 0..1, o \in 0..1 :
       Call("voronoi_otsu_labeling", <<Source>>, d, <<p, v, s, o>>,
            voronoi_otsu_labeling(Found(p, v), Source, d, s, o))

\* transform.cpp, tier7/affine_transform.cpp and their like
Transforms ==
  \/ \E d \in Destinations, e \in Extents, i \in BOOLEAN, images \in Images :
       Call("transform_affine", <<Source>>, d, <<images, e, i>>,
            transform_affine(Now, Source, d, e, i, images))
  \/ \E d \in Destinations, e \in Extents, i \in BOOLEAN, images \in Images,
        size \in {0, 9, 12, 16} :
       Call("affine_transform", <<Source>>, d, <<images, e, i, size>>,
            affine_transform(Now, Source, d, e, i, images, size))
  \/ \E d \in Destinations, e \in Extents, i \in BOOLEAN, images \in Images, b \in BOOLEAN :
       Call("rigid_transform", <<Source>>, d, <<images, e, i, b>>,
            rigid_transform(Now, Source, d, e, i, images, b))
  \/ \E d \in Destinations, e \in Extents, i \in BOOLEAN, images \in Images, b \in BOOLEAN :
       Call("rotate", <<Source>>, d, <<images, e, i, b>>,
            rotate(Now, Source, d, e, i, images, b))
  \/ \E d \in Destinations, e \in Extents, i \in BOOLEAN, images \in Images, b \in BOOLEAN :
       Call("scale", <<Source>>, d, <<images, e, i, b>>,
            scale(Now, Source, d, e, i, images, b))
  \/ \E d \in Destinations, e \in Extents, i \in BOOLEAN, images \in Images, b \in BOOLEAN :
       Call("make_isotropic", <<Source>>, d, <<images, e, i, b>>,
            make_isotropic(Now, Source, d, e, i, images, b))
  \/ \E d \in Destinations, e \in Extents, i \in BOOLEAN, images \in Images, b \in BOOLEAN :
       Call("make_anisotropic", <<Source>>, d, <<images, e, i, b>>,
            make_anisotropic(Now, Source, d, e, i, images, b))
  \/ \E d \in Destinations, i \in BOOLEAN, images \in Images :
       Call("translate", <<Source>>, d, <<images, i>>, translate(Now, Source, d, i, images))
  \/ \E d \in Destinations, e \in Extents :
       Call("affine_transform_deskew_3d", <<Source>>, d, <<e>>,
            affine_transform_deskew_3d(Now, Source, d, e))
  \/ \E d \in Destinations, e \in Extents :
       Call("deskew_x", <<Source>>, d, <<e>>, deskew_x(Now, Source, d, e))
  \/ \E d \in Destinations, e \in Extents :
       Call("deskew_y", <<Source>>, d, <<e>>, deskew_y(Now, Source, d, e))

\* fft.cpp
Fourier ==
  \/ One("fft", fft)
  \/ /\ call = NotCalled
     /\ Size(machine, Operand) >= Elements(HermitianShape(Shape(machine, Own)))
     /\ Call("ifft", <<Operand>>, Own, <<>>, ifft(Now, Operand, Own))
  \/ /\ call = NotCalled
     /\ Call("ifft", <<Operand>>, Null, <<>>, ifft(Now, Operand, Null))
  \/ \E d \in Destinations, smooth \in SmoothShapes :
       Call("convolve_fft", <<Source, Operand>>, d, <<smooth>>,
            convolve_fft(Now, Source, Operand, d, smooth))
  \/ \E d \in Destinations, smooth \in SmoothShapes, n \in {Null, Operand},
        i \in 0..2, tv \in BOOLEAN :
       Call("deconvolve", IF i = 0 THEN <<>> ELSE <<Source, Operand>>, d, <<smooth, n, i, tv>>,
            deconvolve(Now, Source, Operand, n, d, smooth, i, tv))

-----------------------------------------------------------------------------

Next ==
  \/ Arithmetic
  \/ WithNumber
  \/ OfPixels
  \/ Moved
  \/ Neighbourhoods
  \/ Filters
  \/ Projections
  \/ Accumulated
  \/ Waves
  \/ Tables
  \/ OfMatrices
  \/ SetInPlace
  \/ Combined
  \/ Numbers
  \/ Morphology
  \/ Stacks
  \/ Spots
  \/ NeighborMatrices
  \/ MadeUp
  \/ Positions
  \/ LabelMatrices
  \/ RemovedLabels
  \/ LabelStatistics
  \/ Thresholds
  \/ SelectedByMap
  \/ Relabelled
  \/ Maps
  \/ NeighborMaps
  \/ Labelings
  \/ Outlines
  \/ NeighborMeasures
  \/ LabelShapes
  \/ Transforms
  \/ Fourier

Spec == Init /\ [][Next]_vars

=============================================================================
