----------------------------- MODULE GcpRunners -----------------------------
(***************************************************************************)
(* The remote_runner functions of the Google Cloud components' launcher    *)
(* image: what each asks of its caller (its parameters) and the steps it   *)
(* takes around the remote job.  A runner is a record:                     *)
(*                                                                         *)
(*   kind      which service module it drives, hence how it resumes,       *)
(*             polls, cancels and classifies failures (module GcpLauncher) *)
(*   params    the parameters without a default                            *)
(*   optional  the parameters with a default, or taken through **kwargs    *)
(*   rejects   it may raise ValueError on its inputs before anything else  *)
(*   asks      it reads another resource before it creates the job         *)
(*   verifies  it reads or checks something after the job succeeded and    *)
(*             may raise RuntimeError or KeyError there                    *)
(*   writes    the output artifacts it always fills on success             *)
(*   mayWrite  the output artifacts it fills when the job produced them    *)
(*   catches   the exceptions that it turns into exit code 13: "runtime"   *)
(*             (RuntimeError and ConnectionError) and "value" (ValueError) *)
(***************************************************************************)

\* The parameters that parse_default_args gives to every runner.
DefaultArgs == {"type", "project", "location", "payload", "gcp_resources"}

\* The parameters of bigquery_util.bigquery_query_job.
QueryArgs == DefaultArgs \cup {"job_configuration_query_override", "executor_input"}

Runner(kind, params) ==
    [kind |-> kind, params |-> params, optional |-> {}, rejects |-> FALSE,
     asks |-> FALSE, verifies |-> FALSE, writes |-> {}, mayWrite |-> {},
     catches |-> {}]

\* Vertex AI jobs and training pipelines: JobRemoteRunner, PipelineRemoteRunner.
VertexJob(params) == [Runner("job", params) EXCEPT !.catches = {"runtime"}]

\* Vertex AI long-running operations: LroRemoteRunner.
Lro(params) == [Runner("lro", params) EXCEPT !.catches = {"runtime"}]

\* A BigQuery job without results: check, create, poll; nothing is caught.
BigQueryJob(params) == Runner("bigquery", params)

\* bigquery_util.bigquery_query_job: the artifact is filled when the finished job
\* names a destination table.
QueryTable(params, artifact) == [BigQueryJob(params) EXCEPT !.mayWrite = {artifact}]

\* The ML.* queries that read the results of the finished job; the answer has no
\* rows (KeyError) when it is an error or the result is empty.
Results(params, artifact) ==
    [BigQueryJob(params) EXCEPT !.verifies = TRUE, !.writes = {artifact}]

\* CREATE MODEL: the finished job must be a CREATE_MODEL statement with a target.
CreatesModel(params, artifact) == Results(params, artifact)

\* EXPORT MODEL: reads the model first and writes a path file at the end.
ExportsModel(params) == [BigQueryJob(params) EXCEPT !.asks = TRUE]

\* Dataproc serverless batches: DataprocBatchRemoteRunner.
DataprocBatch(params) == Runner("dataproc", params)

\* Dataflow flex templates: launched, never polled.
FlexTemplate(params) == Runner("flex", params)

\* Dataflow Python jobs: a subprocess launches the job and prints its identifier.
PythonJob(params) == [Runner("python", params) EXCEPT !.asks = TRUE]

\* Waits for the Dataflow job named in its payload.
Wait(params) == [Runner("wait", params) EXCEPT !.rejects = TRUE]

\* Reads a model and fills an artifact; there is no job.
Lookup(params) == [Runner("lookup", params) EXCEPT !.rejects = TRUE,
                                                   !.writes = {"model"}]

-----------------------------------------------------------------------------
\* One definition for each runner function.

create_image_training_pipeline ==
    [VertexJob({"executor_input", "gcp_resources", "location", "project", "type"})
      EXCEPT !.optional = {"base_model", "budget_milli_node_hours", "dataset",
      "disable_early_stopping", "display_name", "incremental_train_base_model",
      "is_default_version", "labels", "model_display_name",
      "model_encryption_spec_key_name", "model_labels", "model_type",
      "model_version_aliases", "model_version_description", "multi_label",
      "parent_model", "prediction_type", "test_filter_split", "test_fraction_split",
      "training_encryption_spec_key_name", "training_filter_split",
      "training_fraction_split", "validation_filter_split",
      "validation_fraction_split"}, !.verifies = TRUE, !.writes = {"model"}]

create_batch_prediction_job ==
    [VertexJob(DefaultArgs \cup {"executor_input"}) EXCEPT !.verifies = TRUE, !.writes =
      {"batchpredictionjob"}, !.mayWrite = {"bigquery_output_table",
      "gcs_output_directory"}]

bigquery_create_model_job == CreatesModel(QueryArgs, "model")

bigquery_detect_anomalies_model_job ==
    QueryTable(QueryArgs \cup {"anomaly_prob_threshold", "contamination", "model_name",
      "query_statement", "table_name"}, "destination_table")

bigquery_drop_model_job == BigQueryJob(QueryArgs \cup {"model_name"})

bigquery_evaluate_model_job ==
    [Results(QueryArgs \cup {"model_name", "query_statement", "table_name",
      "threshold"}, "evaluation_metrics") EXCEPT !.rejects = TRUE]

bigquery_explain_forecast_model_job ==
    QueryTable(QueryArgs \cup {"confidence_level", "horizon", "model_name"},
      "destination_table")

bigquery_explain_predict_model_job ==
    [QueryTable(QueryArgs \cup {"model_name", "num_integral_steps", "query_statement",
      "table_name", "threshold", "top_k_features"}, "destination_table") EXCEPT
      !.rejects = TRUE]

bigquery_export_model_job ==
    ExportsModel(DefaultArgs \cup {"executor_input", "exported_model_path",
      "model_destination_path", "model_name"})

bigquery_ml_feature_importance_job ==
    Results(QueryArgs \cup {"model_name"}, "feature_importance")

bigquery_forecast_model_job ==
    QueryTable(QueryArgs \cup {"confidence_level", "horizon", "model_name"},
      "destination_table")

bigquery_ml_global_explain_job ==
    QueryTable(QueryArgs \cup {"class_level_explain", "model_name"},
      "destination_table")

bigquery_ml_advanced_weights_job ==
    Results(QueryArgs \cup {"model_name"}, "advanced_weights")

bigquery_ml_arima_coefficients ==
    Results(QueryArgs \cup {"model_name"}, "arima_coefficients")

bigquery_ml_arima_evaluate_job ==
    Results(QueryArgs \cup {"model_name", "show_all_candidate_models"},
      "arima_evaluation_metrics")

bigquery_ml_centroids_job ==
    Results(QueryArgs \cup {"model_name", "standardize"}, "centroids")

bigquery_ml_confusion_matrix_job ==
    [QueryTable(QueryArgs \cup {"model_name", "query_statement", "table_name",
      "threshold"}, "confusion_matrix") EXCEPT !.rejects = TRUE]

bigquery_ml_feature_info_job == Results(QueryArgs \cup {"model_name"}, "feature_info")

bigquery_ml_principal_component_info_job ==
    QueryTable(QueryArgs \cup {"model_name"}, "destination_table")

bigquery_ml_principal_components_job ==
    QueryTable(QueryArgs \cup {"model_name"}, "destination_table")

bigquery_ml_recommend_job ==
    [QueryTable(QueryArgs \cup {"model_name", "query_statement", "table_name"},
      "destination_table") EXCEPT !.rejects = TRUE]

bigquery_ml_reconstruction_loss_job ==
    [QueryTable(QueryArgs \cup {"model_name", "query_statement", "table_name"},
      "destination_table") EXCEPT !.rejects = TRUE]

bigquery_ml_roc_curve_job ==
    [QueryTable(QueryArgs \cup {"model_name", "query_statement", "table_name",
      "thresholds"}, "roc_curve") EXCEPT !.rejects = TRUE]

bigquery_ml_training_info_job ==
    Results(QueryArgs \cup {"model_name"}, "ml_training_info")

bigquery_ml_trial_info_job == Results(QueryArgs \cup {"model_name"}, "trial_info")

bigquery_ml_weights_job == Results(QueryArgs \cup {"model_name"}, "weights")

bigquery_predict_model_job ==
    [QueryTable(QueryArgs \cup {"model_name", "query_statement", "table_name",
      "threshold"}, "destination_table") EXCEPT !.rejects = TRUE]

bigquery_query_job == QueryTable(QueryArgs, "destination_table")

create_preview_custom_job == VertexJob(DefaultArgs)

create_custom_job == VertexJob(DefaultArgs)

launch_flex_template == FlexTemplate(DefaultArgs)

create_python_job ==
    [PythonJob({"gcp_resources", "location", "project", "python_module_path",
      "temp_location"}) EXCEPT !.optional = {"args", "requirements_file_path"}]

create_pyspark_batch == DataprocBatch(DefaultArgs \cup {"batch_id"})

create_spark_batch == DataprocBatch(DefaultArgs \cup {"batch_id"})

create_spark_r_batch == DataprocBatch(DefaultArgs \cup {"batch_id"})

create_spark_sql_batch == DataprocBatch(DefaultArgs \cup {"batch_id"})

create_endpoint ==
    [Lro(DefaultArgs \cup {"executor_input"}) EXCEPT !.catches = {}, !.verifies = TRUE,
      !.writes = {"endpoint"}]

delete_endpoint == [Lro(DefaultArgs) EXCEPT !.rejects = TRUE]

deploy_model == [Lro(DefaultArgs) EXCEPT !.rejects = TRUE]

undeploy_model == [Lro(DefaultArgs) EXCEPT !.rejects = TRUE, !.asks = TRUE]

create_hyperparameter_tuning_job ==
    [VertexJob(DefaultArgs) EXCEPT !.optional = {"execution_metrics"}, !.verifies =
      TRUE]

create_infra_validation_job ==
    [VertexJob(DefaultArgs \cup {"executor_input"}) EXCEPT !.rejects = TRUE, !.catches =
      {"runtime", "value"}]

create_templated_custom_job ==
    [VertexJob(DefaultArgs) EXCEPT !.optional = {"dry_run", "set_boolean", "set_float",
      "set_integer", "set_json", "set_string"}, !.rejects = TRUE]

delete_model == [Lro(DefaultArgs) EXCEPT !.rejects = TRUE]

export_model ==
    [Lro(DefaultArgs \cup {"output_info"}) EXCEPT !.rejects = TRUE, !.verifies = TRUE]

get_model == Lookup({"executor_input", "location", "model_name", "project"})

upload_model ==
    [Lro(DefaultArgs \cup {"executor_input"}) EXCEPT !.optional = {"parent_model_name"},
      !.verifies = TRUE, !.writes = {"model"}]

wait_gcp_resources == Wait(DefaultArgs)

=============================================================================
