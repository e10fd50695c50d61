------------------------------- MODULE Tier4 --------------------------------
(***************************************************************************)
(* Tier 4: thresholds, maps of measurements and selections of labels       *)
(* (tier4/).                                                               *)
(***************************************************************************)
EXTENDS Tier3

-----------------------------------------------------------------------------
(* Values of whole images *)

label_bounding_box(m, src) ==
  Then([binary \in {equal_constant(m, src, Null)} |->
  bounding_box(binary, Ret(binary))])

mean_squared_error(m, src0, src1) ==
  Then([temp \in {squared_difference(m, src0, src1, Null)} |->
  mean_of_all_pixels(temp, Ret(temp))])

variance_of_all_pixels(m, src) ==
  Then([diff \in {Create(mean_of_all_pixels(m, src), Shape(m, src), Array(m, src).dim, "FLOAT")} |->
  mean_of_all_pixels(evaluate(diff, <<src>>, Ret(diff)), Ret(diff))])
standard_deviation_of_all_pixels(m, src) == variance_of_all_pixels(m, src)

\* A FLOAT vector of 256 counts is read back.
_compute_histogram(m, src) ==
  Then([hist_array \in {Create(maximum_of_all_pixels(minimum_of_all_pixels(m, src), src),
              <<256, 1, 1>>, 1, "FLOAT")} |->
  Then([counted \in {histogram(hist_array, src, Ret(hist_array), 256, TRUE)} |->
  ReadTo(counted, Ret(hist_array), "FLOAT")])])

percentile(m, src) == Return(_compute_histogram(m, src), Null)

_binarize(m, src, dst) ==
  Then([made \in {create_like(m, src, dst, BOOL)} |->
  greater_constant(made, src, Ret(made))])

threshold_mean(m, src, dst) == _binarize(mean_of_all_pixels(m, src), src, dst)
threshold_otsu(m, src, dst) == _binarize(_compute_histogram(m, src), src, dst)
threshold_yen(m, src, dst) == _binarize(_compute_histogram(m, src), src, dst)
threshold_triangle(m, src, dst) == _binarize(_compute_histogram(m, src), src, dst)
threshold_isodata(m, src, dst) == _binarize(_compute_histogram(m, src), src, dst)

\* flat: the image has a single intensity, and the mean is not measured.
threshold_li(m, src, dst, flat) ==
  Then([counted \in {_compute_histogram(m, src)} |->
  _binarize(IF flat THEN counted ELSE mean_of_all_pixels(counted, src), src, dst)])

-----------------------------------------------------------------------------
(* Labels *)

\* Mutant of centroids_of_labels: the background gets its column without being asked for.
centroids_of_all_labels(m, label_image, centroids_coordinates, include_background) ==
  LET nb_labels == m.host + 1
  IN Then([accum \in
          {Create(maximum_of_all_pixels(m, label_image), <<nb_labels, 4, 1>>, 2, "INT32")} |->
  Then([added \in {Launch(Fill(accum, Ret(accum)), Scatter, <<label_image>>, <<Ret(accum)>>,
              Shape(m, label_image))} |->
  Then([read \in {ReadTo(added, Ret(accum), "INT32")} |->
  LET extents == <<Max({IF include_background THEN nb_labels ELSE nb_labels - 1, 1}), 3, 1>>
  IN Then([made \in
         {IF centroids_coordinates # Null THEN Return(read, centroids_coordinates)
          ELSE Create(read, <<nb_labels, 3, 1>>, 1, "FLOAT")} |->
  LET to == Ret(made)
  IN Then([right \in {Require(made, centroids_coordinates # Null =>
                          Shape(made, to) = extents /\ Type(made, to) = "FLOAT")} |->
  WriteFrom(right, to)])])])])])

\* The kernel adds up positions per label; the host divides them.
centroids_of_labels(m, label_image, centroids_coordinates, include_background) ==
  LET nb_labels == m.host + 1
  IN Then([accum \in
          {Create(maximum_of_all_pixels(m, label_image), <<nb_labels, 4, 1>>, 2, "INT32")} |->
  Then([added \in {Launch(Fill(accum, Ret(accum)), Scatter, <<label_image>>, <<Ret(accum)>>,
              Shape(m, label_image))} |->
  Then([read \in {ReadTo(added, Ret(accum), "INT32")} |->
  LET extents == <<Max({IF include_background THEN nb_labels ELSE nb_labels - 1, 1}), 3, 1>>
  IN Then([made \in
         {IF centroids_coordinates # Null THEN Return(read, centroids_coordinates)
          ELSE Create(read, extents, 1, "FLOAT")} |->
  LET to == Ret(made)
  IN Then([right \in {Require(made, Shape(made, to) = extents /\ Type(made, to) = "FLOAT")} |->
  WriteFrom(right, to)])])])])])

\* Labels flagged by two comparisons of the map's values are removed.
SelectedLabels(m, src, values, dst, Above(_, _, _), Below(_, _, _), Combined(_, _, _, _)) ==
  LET above == Above(m, values, Null)
      below == Below(above, values, Null)
  IN Then([flaglist \in {Create(below, <<Size(m, values), 1, 1>>, 1, LABEL)} |->
  Then([flagged \in {Combined(flaglist, Ret(below), Ret(above), Ret(flaglist))} |->
  remove_labels(flagged, src, Ret(flaglist), dst)])])

remove_labels_with_map_values_out_of_range(m, src, values, dst) ==
  SelectedLabels(m, src, values, dst, greater_constant, smaller_constant, binary_or)
remove_labels_with_map_values_within_range(m, src, values, dst) ==
  SelectedLabels(m, src, values, dst, greater_or_equal_constant, smaller_or_equal_constant,
                 binary_and)
exclude_labels_with_map_values_out_of_range(m, values_map, label_map_input, dst) ==
  remove_labels_with_map_values_out_of_range(m, label_map_input, values_map, dst)
exclude_labels_with_map_values_within_range(m, values_map, label_map_input, dst) ==
  remove_labels_with_map_values_within_range(m, label_map_input, values_map, dst)

\* Existing labels are flagged, the flags summed up by blocks and enumerated.
relabel_sequential(m, src, dst, blocksize) ==
  Then([made \in {create_like(m, src, dst, "UNKNOWN")} |->
  LET n == m.host + 1
  IN Then([flagged \in {Create(maximum_of_all_pixels(made, src), <<n, 1, 1>>, 1, Type(m, src))} |->
  Then([flags \in {set_column(flag_existing_labels(Fill(flagged, Ret(flagged)), src, Ret(flagged)),
                  Ret(flagged))} |->
  Then([block_sums \in {Create(flags, <<n \div blocksize + 1, 1, 1>>, 1, Type(m, src))} |->
  Then([summed \in {sum_reduction_x(block_sums, Ret(flagged), Ret(block_sums), blocksize)} |->
  Then([new_indices \in {Create(summed, <<n, 1, 1>>, 1, Type(m, src))} |->
  Then([numbered \in {block_enumerate(new_indices, Ret(flagged), Ret(block_sums), Ret(new_indices),
                       blocksize)} |->
  replace_values(numbered, src, Ret(new_indices), Ret(made))])])])])])])])

spots_to_pointlist(m, src, dst) ==
  Then([labeled_spots \in {label_spots(m, src, Null)} |->
  labelled_spots_to_pointlist(labeled_spots, Ret(labeled_spots), dst)])

generate_partial_touching_area_matrix(m, src_label, dst_matrix) ==
  Then([area \in {generate_touching_area_matrix(m, src_label, Null)} |->
  Then([made \in
          {create_dst(area, Ret(area), dst_matrix, Shape(area, Ret(area)), "FLOAT", FALSE)} |->
  Then([vector \in {sum_y_projection(made, Ret(area), Null, FALSE)} |->
  divide_images(vector, Ret(area), Ret(vector), Ret(made))])])])
generate_touch_portion_matrix(m, src_label, dst_matrix) ==
  generate_partial_touching_area_matrix(m, src_label, dst_matrix)

-----------------------------------------------------------------------------
(* Maps: every label is replaced by a value of its own *)

\* found: the property is among the statistics.
parametric_map(m, labels, dst, found) ==
  Then([made \in {create_like(m, labels, dst, "FLOAT")} |->
  Then([measured \in {maximum_of_all_pixels(Require(made, found), labels)} |->
  Then([values \in {Create(measured, <<m.host + 1, 1, 1>>, 1, "FLOAT")} |->
  Then([table \in {set_column(WriteFrom(values, Ret(values)), Ret(values))} |->
  replace_values(table, labels, Ret(values), Ret(made))])])])])

\* The statistics include the background, as parametric_map expects them to.
StatisticsMap(m, labels, intensity, dst) ==
  parametric_map(labels_statistics(m, labels, intensity, TRUE), labels, dst, TRUE)

pixel_count_map(m, src, dst) == StatisticsMap(m, src, Null, dst)
label_pixel_count_map(m, src, dst) == pixel_count_map(m, src, dst)
extension_ratio_map(m, src, dst) == StatisticsMap(m, src, Null, dst)
mean_extension_map(m, src, dst) == StatisticsMap(m, src, Null, dst)
maximum_extension_map(m, src, dst) == StatisticsMap(m, src, Null, dst)
mean_intensity_map(m, src, labels, dst) == StatisticsMap(m, labels, src, dst)
label_mean_intensity_map(m, src, labels, dst) == mean_intensity_map(m, src, labels, dst)
minimum_intensity_map(m, src, labels, dst) == StatisticsMap(m, labels, src, dst)
maximum_intensity_map(m, src, labels, dst) == StatisticsMap(m, labels, src, dst)
standard_deviation_intensity_map(m, src, labels, dst) == StatisticsMap(m, labels, src, dst)

\* For neighbours of neighbours the touch matrix, of zeros and ones, is itself taken for a
\* label image.  Whatever it is given to compute, it reads the same (OfNeighbors).
apply_touching_neighbors_operation(m, map, labels, dst, radius, ignore_background) ==
  LET Bare(n) == IF ignore_background THEN set_column(n, Ret(n)) ELSE n
      OfMatrix(n) == [n EXCEPT !.host = Min({@, 1})]
      Again(n, r) == [Bare(generate_touch_matrix(OfMatrix(n), Ret(n), Null)) EXCEPT
                        !.host = m.host]
  IN Then([made \in {create_like(m, map, dst, "FLOAT")} |->
     IF radius < 1 THEN copy(made, map, Ret(made))
     ELSE Then([touch \in {FoldLeft(Again, Bare(generate_touch_matrix(made, labels, Null)),
                        [r \in 1..radius - 1 |-> r])} |->
          Then([values \in {read_map_values(touch, map, labels, Null)} |->
          Then([new_values \in {OfNeighbors(values, Ret(values), Ret(touch), Null)} |->
          Then([table \in {set_column(new_values, Ret(new_values))} |->
          Return(replace_intensities(table, labels, Ret(new_values), Ret(made)),
                  Ret(made))])])])])])

mean_of_touching_neighbors_map(m, map, labels, dst, radius, ignore_background) ==
  apply_touching_neighbors_operation(m, map, labels, dst, radius, ignore_background)
minimum_of_touching_neighbors_map(m, map, labels, dst, radius, ignore_background) ==
  apply_touching_neighbors_operation(m, map, labels, dst, radius, ignore_background)
maximum_of_touching_neighbors_map(m, map, labels, dst, radius, ignore_background) ==
  apply_touching_neighbors_operation(m, map, labels, dst, radius, ignore_background)
standard_deviation_of_touching_neighbors_map(m, map, labels, dst, radius, ignore_background) ==
  apply_touching_neighbors_operation(m, map, labels, dst, radius, ignore_background)
mode_of_touching_neighbors_map(m, map, labels, dst, radius, ignore_background) ==
  apply_touching_neighbors_operation(m, map, labels, dst, radius, ignore_background)
median_of_touching_neighbors_map(m, map, labels, dst, radius, ignore_background) ==
  apply_touching_neighbors_operation(m, map, labels, dst, radius, ignore_background)

=============================================================================
