------------------------------- MODULE Tier5 --------------------------------
(***************************************************************************)
(* Tier 5: labeling and operations on label images (tier5/).               *)
(***************************************************************************)
EXTENDS Tier4

\* Images of different extents are unequal; nothing is measured then.
array_equal(m, src0, src1) ==
  IF Shape(m, src0) # Shape(m, src1) THEN Return(m, Null) ELSE mean_squared_error(m, src0, src1)

\* Mutant of combine_labels: the masked image takes the place of the first source.
combine_labels_drops(m, src0, src1, dst) ==
  Then([made \in {create_like(m, src0, dst, LABEL)} |->
  Then([shifted \in {add_image_and_scalar(maximum_of_all_pixels(made, src0), src1, Null)} |->
  Then([labelled \in {greater_constant(shifted, src1, Null)} |->
  Then([masked \in {mask(labelled, Ret(shifted), Ret(labelled), Null)} |->
  Then([both \in {maximum_images(masked, Ret(labelled), Ret(masked), Null)} |->
  relabel_sequential(both, Ret(both), Ret(made), 4096)])])])])])

\* The labels of src1 are numbered after those of src0 and win where both are.
combine_labels(m, src0, src1, dst) ==
  Then([made \in {create_like(m, src0, dst, LABEL)} |->
  Then([shifted \in {add_image_and_scalar(maximum_of_all_pixels(made, src0), src1, Null)} |->
  Then([labelled \in {greater_constant(shifted, src1, Null)} |->
  Then([masked \in {mask(labelled, Ret(shifted), Ret(labelled), Null)} |->
  Then([both \in {maximum_images(masked, src0, Ret(masked), Null)} |->
  relabel_sequential(both, Ret(both), Ret(made), 4096)])])])])])

\* The smallest index spreads within a component until a pass changes nothing.
connected_component_labeling(m, src, dst, connectivity) ==
  Then([made \in {create_like(m, src, dst, LABEL)} |->
  Then([temp1 \in {set_nonzero_pixels_to_pixelindex(made, src, Null)} |->
  Then([temp2 \in {CreateAs(temp1, Ret(temp1))} |->
  Then([flag \in {Create(Fill(temp2, Ret(temp2)), <<1, 1, 1>>, 1, "INT32")} |->
  LET Wave(n, iter_count) ==
        LET active == IF iter_count % 2 = 0 THEN Ret(temp1) ELSE Ret(temp2)
            passive == IF iter_count % 2 = 0 THEN Ret(temp2) ELSE Ret(temp1)
        IN Then([swept \in {nonzero_minimum(n, active, Ret(flag), passive, connectivity)} |->
        Fill(ReadTo(swept, Ret(flag), "INT32"), Ret(flag))])
  IN Then([settled \in {FoldLeft(Wave, Fill(flag, Ret(flag)), [i \in 1..m.passes |-> i - 1])} |->
  relabel_sequential(settled,
                     IF m.passes % 2 = 0 THEN Ret(temp1) ELSE Ret(temp2),
                     Ret(made), 4096)])])])])])
connected_components_labeling(m, src, dst, connectivity) ==
  connected_component_labeling(m, src, dst, connectivity)

filter_label_by_size(m, src, dst) ==
  Then([made \in {create_like(m, src, dst, LABEL)} |->
  Then([stats \in {statistics_of_background_and_labelled_pixels(made, Null, src)} |->
  Then([list_of_area \in {Create(stats, <<m.host + 1, 1, 1>>, 1, "FLOAT")} |->
  remove_labels_with_map_values_out_of_range(
                WriteFrom(list_of_area, Ret(list_of_area)), src, Ret(list_of_area),
                Ret(made))])])])
exclude_labels_outside_size_range(m, src, dst) == filter_label_by_size(m, src, dst)

\* One round merges the labels that touch; the call on its result gets no destination.
merge_touching_labels(m, src, dst) ==
  LET Bare(n, matrix) == set_row(set_column(n, matrix), matrix)
      Merged(n, image, matrix, dst_) ==
        Then([made \in {create_like(n, image, dst_, LABEL)} |->
        Then([marked \in {Bare(set_where_x_equals_y(made, matrix), matrix)} |->
        Then([label_id \in {Create(marked, <<1, Height(n, matrix), 1>>, 1, LABEL)} |->
        Then([ids \in {Create(set_ramp_y(label_id, Ret(label_id)), Shape(n, matrix), 2, LABEL)} |->
        Then([named \in {multiply_images(ids, matrix, Ret(label_id), Ret(ids))} |->
        Then([vector \in {maximum_y_projection(named, Ret(ids), Null, FALSE)} |->
        Then([new_labels \in {relabel_sequential(vector, Ret(vector), Null, 4096)} |->
        Return(replace_intensities(new_labels, image, Ret(new_labels), Ret(made)),
               Ret(made))])])])])])])])
      Round(n, i) ==
        Then([touching \in {generate_touch_matrix(n, Ret(n), Null)} |->
        Then([touched \in {maximum_of_all_pixels(Bare(touching, Ret(touching)), Ret(touching))} |->
        IF i = m.passes THEN Return(touched, Ret(n))
        ELSE Merged(touched, Ret(n), Ret(touching), IF i = 1 THEN dst ELSE Null)])])
  IN FoldLeft(Round, Return(m, src), [i \in 1..m.passes |-> i])

\* low and high: a percentile is given for this end of the range.
normalize(m, src, dst, low, high) ==
  Then([made \in {create_like(m, src, dst, "FLOAT")} |->
  Then([lo \in {IF low THEN percentile(made, src) ELSE minimum_of_all_pixels(made, src)} |->
  Then([hi \in {IF high THEN percentile(lo, src) ELSE maximum_of_all_pixels(lo, src)} |->
  evaluate(hi, <<src>>, Ret(made))])])])

proximal_neighbor_count(m, src, dst) ==
  Then([pointlist \in {centroids_of_labels(m, src, Null, FALSE)} |->
  Then([distances \in
          {generate_distance_matrix(pointlist, Ret(pointlist), Ret(pointlist), Null)} |->
  Then([near \in {generate_proximal_neighbors_matrix(distances, Ret(distances), Null)} |->
  Then([counted \in {count_touching_neighbors(near, Ret(near), dst, FALSE)} |->
  set_column(counted, Ret(counted))])])])])

\* The centroids, and in a fourth row the labels themselves.
reduce_labels_to_centroids(m, src, dst) ==
  Then([made \in {create_like(m, src, dst, LABEL)} |->
  Then([pos \in {centroids_of_labels(Fill(made, Ret(made)), src, Null, TRUE)} |->
  Then([label_pos \in {Create(pos, <<Width(pos, Ret(pos)), 4, 1>>, 2, "FLOAT")} |->
  Then([rows \in {CopyRegion(set_ramp_x(label_pos, Ret(label_pos)), Ret(pos), Ret(label_pos),
                  <<Width(pos, Ret(pos)), 3, 1>>)} |->
  Then([clean \in {nan_to_num(set_column(rows, Ret(label_pos)), Ret(label_pos), Ret(label_pos))} |->
  write_values_to_positions(clean, Ret(label_pos), Ret(made))])])])])])

standard_deviation_partial_touching_area_matrix(m, src_label, dst_vector) ==
  Then([portion \in {generate_partial_touching_area_matrix(m, src_label, Null)} |->
  Then([above \in {greater_constant(portion, Ret(portion), Null)} |->
  Then([touching \in {symmetric_minimum_matrix(above, Ret(above), Null)} |->
  Then([touch_count \in {sum_y_projection(set_where_x_equals_y(touching, Ret(touching)),
                        Ret(touching), Null, FALSE)} |->
  Then([ratio \in {reciprocal(touch_count, Ret(touch_count), Null)} |->
  Then([mean \in {multiply_images(ratio, Ret(touching), Ret(ratio), Null)} |->
  Then([made \in {CreateAs(mean, Ret(portion))} |->
  Then([deviation \in {evaluate(made, <<Ret(portion), Ret(mean)>>, Ret(made))} |->
  Then([relative \in {divide_images(deviation, Ret(made), Ret(touch_count), Null)} |->
  Then([summed \in {sum_y_projection(relative, Ret(relative), Null, FALSE)} |->
  nan_to_num(summed, Ret(summed), dst_vector)])])])])])])])])])])
standard_deviation_touch_portion(m, src_label, dst_vector) ==
  standard_deviation_partial_touching_area_matrix(m, src_label, dst_vector)

=============================================================================
